---- MODULE Spec2Model ----
(***************************************************************************)
(* Model of BlockDeletee (src/src/main.rs): the event worker of            *)
(* BlockDeleteController (partial diffing, repeat gate, chunk-context      *)
(* cache, cooldown ledger) and MinecraftRconService (run_command with its  *)
(* reconnect loop behind the runtime mutex, update_endpoint, close, the    *)
(* validating operations built on run_command).                            *)
(*                                                                         *)
(* Text is modelled at character level: a string is a sequence of          *)
(* characters, a character is a one-element atom.  "ya" / "YA" stand for   *)
(* the Cyrillic letter ya in lower / upper case (2 bytes each in UTF-8).   *)
(* Time is counted in ticks of 100 ms.                                     *)
(***************************************************************************)
EXTENDS Integers, Sequences, FiniteSets, TLC

VARIABLES
    now,               \* Instant::now(), in ticks of 100 ms
    player_name,       \* config.microphone.player_name (fixed for a run)
    partial_progress,  \* HashMap<String, PartialProgressState>
    repeat_gate,       \* HashMap<(String, String), RepeatGateState>
    last_trigger,      \* BTreeMap<(String, String), Instant>
    cached_chunk,      \* Option<CachedChunkContext>
    ew_pc,             \* position of the event worker in its loop body
    ew_candidates,     \* candidates of the event being processed
    ew_passed,         \* candidates of that event that passed the repeat gate
    ew_block_ids,      \* block_ids still to be handled for that event
    ew_ctx,            \* chunk_context of that event
    ew_lookups,        \* get_player_chunk_context calls made for that event
    ew_checks,         \* cooldown checks made for that event
    ew_logs,           \* log tags emitted for that event
    ui_player_online,  \* UiState.player_online
    gate_run,          \* history: per key, position in the current rapid run
    partial_run,       \* history: candidates emitted in the current partial run
    trigger_hist,      \* history: per key, time of the last deleteInChunk call
    rcon_lock,         \* holder of Mutex<RconRuntime>, or "none"
    rcon_conn,         \* RconRuntime.client and the client being built by connect
    client_endpoint,   \* the (host, port) that client's socket was opened to, 0: none
    rt_endpoint,       \* RconRuntime.host / RconRuntime.port
    ui_rcon_ok,        \* UiState.rcon_ok
    th,                \* per worker thread: its position in a service operation
    ui_pc,             \* position of the UI thread in update_endpoint
    pw_was_online,     \* was_online of the presence watcher
    pw_hist,           \* history: what the presence watcher has done so far
    next_id,           \* MinecraftRconClient.next_id
    stream,            \* bytes written to MinecraftRconClient.stream, not read yet
    sent_ids,          \* history: ids of the packets sent over this connection
    packet,            \* Result<RconPacket, String> of the last read_packet
    fn_call,           \* the function applied last, with its arguments
    fn_ret,            \* what that application returned
    shutdown,          \* the shutdown AtomicBool
    pcm_open,          \* a Sender of the PCM channel is still alive
    text_chan,         \* events waiting in the recognized-phrase channel
    rec_pc,            \* position of the recognizer worker thread
    rt_ew,             \* position of the event worker thread
    rt_pw,             \* position of the presence watcher thread
    main_pc,           \* position of run / run_headless_with_shutdown
    controls,          \* TuiControls of run
    settings_draft,    \* SettingsDraft of run
    restart_after_tui_exit,  \* the local of run of that name
    ui_settings,       \* UiState: rcon_host, rcon_port, rcon_password, player_name, ui_mode
    ui_logs            \* UiState.logs, the entries pushed by run's key handling

pipeline_vars == <<now, player_name, partial_progress, repeat_gate, last_trigger,
                   cached_chunk, ew_pc, ew_candidates, ew_passed, ew_block_ids,
                   ew_ctx, ew_lookups, ew_checks, ew_logs, ui_player_online,
                   gate_run, partial_run, trigger_hist>>

rcon_vars == <<rcon_lock, rcon_conn, client_endpoint, rt_endpoint, ui_rcon_ok, th, ui_pc>>

fn_vars == <<fn_call, fn_ret>>

runtime_vars == <<shutdown, pcm_open, text_chan, rec_pc, rt_ew, rt_pw, main_pc>>

presence_vars == <<pw_was_online, pw_hist>>

client_vars == <<next_id, stream, sent_ids, packet>>

tui_vars == <<controls, settings_draft, restart_after_tui_exit, ui_settings,
              ui_logs>>
aux_vars == <<fn_vars, runtime_vars, presence_vars, client_vars, tui_vars>>

\* what an application of a function leaves alone
non_fn_vars == <<pipeline_vars, rcon_vars, runtime_vars, presence_vars,
                 client_vars, tui_vars>>

\* what a step of a thread of run leaves alone
non_runtime_vars == <<pipeline_vars, fn_vars, presence_vars, client_vars,
                      tui_vars>>

vars == <<pipeline_vars, rcon_vars, aux_vars>>

\* config.minecraft.rcon_host, rcon_port, rcon_password and config.ui.mode of
\* the run (config.microphone.player_name is the variable player_name)
ConfigHost == <<"h">>
ConfigPort == 6
ConfigPassword == <<"p">>
ConfigUiMode == "Tui"

\* u16::to_string
RECURSIVE u16_to_string(_)
u16_to_string(n) ==
    LET digit == <<"0", "1", "2", "3", "4", "5", "6", "7", "8", "9">>[(n % 10) + 1]
    IN IF n < 10 THEN <<digit>> ELSE Append(u16_to_string(n \div 10), digit)

\* nothing has been applied yet; run has built TuiControls and SettingsDraft
\* from the configuration and UiState::new has copied it
AuxInit ==
    /\ controls = [selected |-> "Settings", settings_open |-> FALSE,
                   settings_field |-> "Host", settings_editing |-> FALSE,
                   settings_tab |-> "Connection"]
    /\ settings_draft = [host |-> ConfigHost, port |-> u16_to_string(ConfigPort),
                         password |-> ConfigPassword, player_name |-> player_name,
                         ui_mode |-> ConfigUiMode]
    /\ restart_after_tui_exit = FALSE
    /\ ui_settings = [rcon_host |-> ConfigHost, rcon_port |-> ConfigPort,
                      rcon_password |-> ConfigPassword, player_name |-> player_name,
                      ui_mode |-> ConfigUiMode]
    /\ ui_logs = <<>>
    /\ fn_call = [fn |-> "none", done |-> TRUE]
    /\ fn_ret = <<>>
    /\ shutdown = FALSE
    /\ pcm_open = TRUE
    /\ text_chan = 0
    /\ rec_pc = "recv"
    /\ rt_ew = "recv"
    /\ rt_pw = "check"
    /\ main_pc = "running"
    /\ pw_was_online = FALSE
    /\ pw_hist = [welcomed |-> FALSE, prev_ok |-> FALSE, lookup_failed |-> FALSE,
                  send_failed |-> FALSE, logs |-> <<>>]
    /\ next_id = 1
    /\ stream = <<>>
    /\ sent_ids = <<>>
    /\ packet = [ok |-> FALSE, err |-> "none"]

(***************************************************************************)
(* Bounds                                                                  *)
(***************************************************************************)
MaxWords == 3          \* words per recognized text (partial-diffing runs)
MaxRepeat == 3         \* rolling count of a key in the partial-diffing runs
MaxPartialTime == 11   \* last tick of the partial-diffing runs
MaxGateCount == 17     \* rolling count of a key in the repeat-gate runs
MaxGateTime == 11      \* last tick of the repeat-gate runs
MaxCoolCount == 2      \* rolling count of a key in the cooldown runs
MaxCoolTime == 29      \* last tick of the cooldown runs
MaxSegY == 5           \* |y| of the small vertical ranges
MaxSegments == 12      \* segments pushed by one build_vertical_segments
MaxCoordTenths == 170  \* |x| of a player position, in tenths of a block
MaxPackets == 3        \* packets sent over one connection
MaxTextChars == 4      \* characters of a text given to match_blocks
MaxCacheTime == 15     \* last tick of the chunk-cache runs
MaxReplies == 3        \* packets the server sends during one connect or cmd
MaxTargetChars == 2    \* characters of a catalog key or target after its prefix
MaxDraftChars == 1     \* characters a text draft of the settings dialog grows to
MaxPortChars == 5      \* characters the port draft of the settings dialog grows to
MaxUiLogs == 1         \* log entries the key handling of a run writes

(***************************************************************************)
(* Program constants                                                       *)
(***************************************************************************)
MIC_SPEAKER_ID == "mic"
min_phrase_chars == 2
cooldown_seconds == 20
fuzzy_threshold == 0
repeat_window == 10
chunk_cache_ttl == 7
RepeatEvery == 8
RetryAttempts == 2
ChannelCapacity == 512
MaxCommandBytes == 1413
fill_max_blocks == 32768

(***************************************************************************)
(* Characters and strings                                                  *)
(***************************************************************************)
Min(a, b) == IF a < b THEN a ELSE b
Max(a, b) == IF a > b THEN a ELSE b

AsciiLower == {"a", "b", "c", "d", "e", "f", "g", "h", "i", "j", "k", "l", "m",
               "n", "o", "p", "q", "r", "s", "t", "u", "v", "w", "x", "y", "z"}
AsciiUpper == {"A", "B", "C", "D", "E", "F", "G", "H", "I", "J", "K", "L", "M",
               "N", "O", "P", "Q", "R", "S", "T", "U", "V", "W", "X", "Y", "Z"}
AsciiDigit == {"0", "1", "2", "3", "4", "5", "6", "7", "8", "9"}
CyrLower == {"ya", "ye", "yo", "eh"}
CyrUpper == {"YA"}

\* char::len_utf8
Utf8Len(ch) == IF ch \in CyrLower \cup CyrUpper THEN 2 ELSE 1

\* str::len (bytes)
RECURSIVE ByteLen(_)
ByteLen(s) ==
    IF s = <<>> THEN 0
    ELSE IF Len(s) = 1 THEN Utf8Len(s[1])
    ELSE ByteLen(SubSeq(s, 1, Len(s) \div 2))
           + ByteLen(SubSeq(s, Len(s) \div 2 + 1, Len(s)))

\* str::to_lowercase, one character
to_lowercase(ch) ==
    CASE ch = "YA" -> "ya"
      [] ch = "A" -> "a"
      [] ch = "D" -> "d"
      [] ch = "M" -> "m"
      [] ch = "S" -> "s"
      [] OTHER -> ch

\* .replace('yo', "ye").replace('eh', "ye")
fold_letter(ch) == IF ch \in {"yo", "eh"} THEN "ye" ELSE ch

is_whitespace(ch) == ch = " "
is_alphanumeric(ch) ==
    ch \in AsciiLower \cup AsciiUpper \cup AsciiDigit \cup CyrLower \cup CyrUpper

\* str::split_whitespace
RECURSIVE SplitFrom(_, _, _)
SplitFrom(s, i, cur) ==
    IF i > Len(s)
    THEN IF cur = <<>> THEN <<>> ELSE <<cur>>
    ELSE IF is_whitespace(s[i])
         THEN IF cur = <<>>
              THEN SplitFrom(s, i + 1, <<>>)
              ELSE <<cur>> \o SplitFrom(s, i + 1, <<>>)
         ELSE SplitFrom(s, i + 1, Append(cur, s[i]))
split_whitespace(s) == SplitFrom(s, 1, <<>>)

\* [..].join(sep)
RECURSIVE Join(_, _)
Join(words, sep) ==
    IF words = <<>> THEN <<>>
    ELSE IF Len(words) = 1 THEN Head(words)
    ELSE Head(words) \o sep \o Join(Tail(words), sep)

\* str::starts_with
starts_with(s, p) == Len(p) <= Len(s) /\ SubSeq(s, 1, Len(p)) = p

\* str::contains
contains(s, p) ==
    \E i \in 1..(Len(s) - Len(p) + 1) : SubSeq(s, i, i + Len(p) - 1) = p

\* normalize_text
normalize_text(text) ==
    LET lowered == [i \in 1..Len(text) |-> fold_letter(to_lowercase(text[i]))]
        buf == [i \in 1..Len(lowered) |->
                  IF is_alphanumeric(lowered[i]) \/ lowered[i] = "_"
                     \/ is_whitespace(lowered[i])
                  THEN lowered[i] ELSE " "]
    IN Join(split_whitespace(buf), <<" ">>)

(***************************************************************************)
(* BlockCatalog                                                            *)
(***************************************************************************)
MinecraftPrefix == <<"m", "i", "n", "e", "c", "r", "a", "f", "t", ":">>
BlockDirt == MinecraftPrefix \o <<"d", "i", "r", "t">>
BlockStone == MinecraftPrefix \o <<"s", "t", "o", "n", "e">>

\* BlockCatalog.sorted_aliases: more words first, then longer, then ascending
sorted_aliases == << <<"d", " ", "ye">>, <<"d", "ye">>, <<"ye">> >>

\* BlockCatalog.alias_to_blocks: identifiers of an alias, sorted ascending
alias_to_blocks(alias) ==
    CASE alias = <<"d", " ", "ye">> -> <<BlockDirt, BlockStone>>
      [] alias = <<"d", "ye">> -> <<BlockStone>>
      [] alias = <<"ye">> -> <<BlockDirt>>
      [] OTHER -> <<>>

\* variant: the text and the alias are compared without the spaces around them
exact_match_aliases_unpadded(normalized_text) ==
    {sorted_aliases[i] : i \in {j \in 1..Len(sorted_aliases) :
        contains(normalized_text, sorted_aliases[j])}}

\* BlockCatalog::exact_match_aliases
exact_match_aliases(normalized_text) ==
    LET padded == <<" ">> \o normalized_text \o <<" ">>
    IN {sorted_aliases[i] : i \in {j \in 1..Len(sorted_aliases) :
            contains(padded, <<" ">> \o sorted_aliases[j] \o <<" ">>)}}

\* alias.split_whitespace().count()
word_count(alias) == Len(split_whitespace(alias))

\* BlockCatalog::make_ngrams, joined with sep (" " or "")
make_ngrams(words, n, sep) ==
    IF n = 0 \/ n > Len(words) THEN <<>>
    ELSE [i \in 1..(Len(words) - n + 1) |-> Join(SubSeq(words, i, i + n - 1), sep)]

\* BlockCatalog::is_plausible_length
is_plausible_length(alias, candidate) ==
    LET la == ByteLen(alias)
        lc == ByteLen(candidate)
        diff == IF la > lc THEN la - lc ELSE lc - la
    IN diff <= Max(2, (la * 35) \div 100)

\* strsim::levenshtein
RECURSIVE levenshtein(_, _)
levenshtein(a, b) ==
    IF a = <<>> THEN Len(b)
    ELSE IF b = <<>> THEN Len(a)
    ELSE IF Head(a) = Head(b) THEN levenshtein(Tail(a), Tail(b))
    ELSE 1 + Min(levenshtein(Tail(a), b),
                 Min(levenshtein(a, Tail(b)), levenshtein(Tail(a), Tail(b))))

\* strsim::normalized_levenshtein(a, b) >= threshold, threshold in percent
similar_enough(a, b, threshold) ==
    LET m == Max(Len(a), Len(b))
    IN IF m = 0 THEN 100 >= threshold
       ELSE (m - levenshtein(a, b)) * 100 >= threshold * m

\* BlockCatalog::fuzzy_match_aliases
fuzzy_match_aliases(normalized_text, threshold, already_matched) ==
    LET words == split_whitespace(normalized_text)
        all == {sorted_aliases[i] : i \in 1..Len(sorted_aliases)}
        max_alias_words ==
            IF all = {} THEN 1
            ELSE CHOOSE n \in {word_count(a) : a \in all} :
                     \A a \in all : word_count(a) <= n
        max_n == Min(max_alias_words, Len(words))
        Elems(q) == {q[i] : i \in 1..Len(q)}
        candidates(wc) ==
            (IF wc <= max_n THEN Elems(make_ngrams(words, wc, <<" ">>)) ELSE {})
            \cup (IF wc = 1 /\ Len(words) >= 2
                  THEN Elems(make_ngrams(words, 2, <<>>)) ELSE {})
            \cup (IF wc = 1 /\ Len(words) >= 3
                  THEN Elems(make_ngrams(words, 3, <<>>)) ELSE {})
    IN IF words = <<>> THEN {}
       ELSE {alias \in all :
               /\ alias \notin already_matched
               /\ Len(alias) >= 5
               /\ \E c \in candidates(word_count(alias)) :
                     /\ is_plausible_length(alias, c)
                     /\ c # <<>> /\ Head(alias) = Head(c)
                     /\ similar_enough(alias, c, threshold)}

\* append the elements of seq not yet in acc, in order
RECURSIVE PushUnseen(_, _)
PushUnseen(acc, seq) ==
    IF seq = <<>> THEN acc
    ELSE IF \E i \in 1..Len(acc) : acc[i] = Head(seq)
         THEN PushUnseen(acc, Tail(seq))
         ELSE PushUnseen(Append(acc, Head(seq)), Tail(seq))

RECURSIVE ExpandAliases(_, _, _)
ExpandAliases(matched_aliases, i, acc) ==
    IF i > Len(sorted_aliases) THEN acc
    ELSE IF sorted_aliases[i] \in matched_aliases
         THEN ExpandAliases(matched_aliases, i + 1,
                            PushUnseen(acc, alias_to_blocks(sorted_aliases[i])))
         ELSE ExpandAliases(matched_aliases, i + 1, acc)

\* BlockCatalog::match_blocks
match_blocks(text, threshold) ==
    LET normalized == normalize_text(text)
        exact_aliases == exact_match_aliases(normalized)
        matched_aliases ==
            IF threshold > 0
            THEN exact_aliases \cup
                 fuzzy_match_aliases(normalized, threshold, exact_aliases)
            ELSE exact_aliases
    IN IF normalized = <<>> THEN <<>>
       ELSE ExpandAliases(matched_aliases, 1, <<>>)

(***************************************************************************)
(* Input validation of MinecraftRconService                                *)
(***************************************************************************)
\* a player_re that lets one more character through
validate_player_name_seventeen(name) ==
    /\ Len(name) >= 1
    /\ Len(name) <= 17
    /\ \A i \in 1..Len(name) :
          name[i] \in AsciiLower \cup AsciiUpper \cup AsciiDigit \cup {"_"}

\* player_re = ^[A-Za-z0-9_]{1,16}$
validate_player_name(name) ==
    /\ Len(name) >= 1
    /\ Len(name) <= 16
    /\ \A i \in 1..Len(name) :
          name[i] \in AsciiLower \cup AsciiUpper \cup AsciiDigit \cup {"_"}

\* block_re = ^minecraft:[a-z0-9_./-]+$
validate_block_id(block_id) ==
    /\ starts_with(block_id, MinecraftPrefix)
    /\ Len(block_id) > Len(MinecraftPrefix)
    /\ \A i \in (Len(MinecraftPrefix) + 1)..Len(block_id) :
          block_id[i] \in AsciiLower \cup AsciiDigit \cup {"_", ".", "/", "-"}

(***************************************************************************)
(* MinecraftRconService: the commands its operations build                 *)
(***************************************************************************)
RECURSIVE DecLen(_)
\* number of bytes `{}` formats an i32 to
DecLen(n) ==
    IF n < 0 THEN 1 + DecLen(0 - n)
    ELSE IF n < 10 THEN 1
    ELSE 1 + DecLen(n \div 10)

RECURSIVE SegmentsFrom(_, _, _)
SegmentsFrom(start, y_max, max_height) ==
    IF start > y_max THEN <<>>
    ELSE LET end == Min(y_max, start + max_height - 1)
         IN <<<<start, end>>>> \o SegmentsFrom(end + 1, y_max, max_height)

\* a usize above the range of the checker's integers: hi * 2^24 + lo
Usize(hi, lo) == [hi |-> hi, lo |-> lo]

\* self.fill_max_blocks / area, area = 16 * 16, as hi * 2^16 + lo
div_area(budget) == [hi |-> budget.hi, lo |-> budget.lo \div (16 * 16)]

\* usize::max(1)
max_one(n) == IF n.hi = 0 /\ n.lo = 0 THEN [hi |-> 0, lo |-> 1] ELSE n

\* `as i32` of a usize hi * 2^16 + lo: the low 32 bits, in two's complement
as_i32(n) ==
    LET high == n.hi % 65536
    IN IF high >= 32768 THEN (high - 65536) * 65536 + n.lo
       ELSE high * 65536 + n.lo

\* (self.fill_max_blocks / area).max(1) as i32
max_height(budget) == as_i32(max_one(div_area(budget)))

build_vertical_segments(y_min, y_max) ==
    SegmentsFrom(y_min, y_max, max_height(Usize(0, fill_max_blocks)))

\* f64::floor of a coordinate given in tenths, then `as i32` (a coordinate
\* inside the world border is far from the ends of i32)
floor_tenths(tenths) == tenths \div 10

\* i32::div_euclid for a positive divisor: the remainder is never negative
div_euclid(a, b) == (a - (a % b)) \div b

\* i32 `/`: the quotient is rounded toward zero
div_trunc(a, b) == IF a >= 0 THEN a \div b ELSE 0 - ((0 - a) \div b)

\* a chunk_origin that rounds the quotient toward zero
chunk_origin_truncating(tenths) == div_trunc(floor_tenths(tenths), 16) * 16

\* MinecraftRconService::chunk_origin
chunk_origin(tenths) == div_euclid(floor_tenths(tenths), 16) * 16

\* the horizontal part of the PlayerChunkContext of a player at (x, z)
chunk_box(x, z) ==
    LET chunk_x_origin == chunk_origin(x)
        chunk_z_origin == chunk_origin(z)
    IN [chunk_x |-> div_trunc(chunk_x_origin, 16),
        chunk_z |-> div_trunc(chunk_z_origin, 16),
        x1 |-> chunk_x_origin, x2 |-> chunk_x_origin + 15,
        z1 |-> chunk_z_origin, z2 |-> chunk_z_origin + 15]

\* get_player_chunk_context has the position (x, z), in tenths of a block
ChunkBoxCall(x, z) ==
    /\ fn_call.fn = "none"
    /\ fn_call' = [fn |-> "chunk_box", x |-> x, z |-> z, done |-> TRUE]
    /\ fn_ret' = chunk_box(x, z)
    /\ UNCHANGED non_fn_vars

\* build_vertical_segments is entered with a budget and a range
BvsCall(budget, y_min, y_max) ==
    /\ fn_call.done
    /\ fn_call' = [fn |-> "build_vertical_segments", fill_max_blocks |-> budget,
                   y_min |-> y_min, y_max |-> y_max, start |-> y_min,
                   done |-> FALSE]
    /\ fn_ret' = <<>>
    /\ UNCHANGED non_fn_vars

\* one turn of `while start <= y_max`, or its end: segments is returned; the
\* i32 sums stay far from the ends of i32 for the ranges fed here
BvsLoop(limit) ==
    /\ fn_call.fn = "build_vertical_segments"
    /\ ~fn_call.done
    /\ IF fn_call.start <= fn_call.y_max
       THEN /\ Len(fn_ret) < limit
            /\ \E end \in {Min(fn_call.y_max,
                                fn_call.start
                                + max_height(fn_call.fill_max_blocks) - 1)} :
                  /\ fn_ret' = Append(fn_ret, <<fn_call.start, end>>)
                  /\ fn_call' = [fn_call EXCEPT !.start = end + 1]
       ELSE /\ fn_call' = [fn_call EXCEPT !.done = TRUE]
            /\ UNCHANGED fn_ret
    /\ UNCHANGED non_fn_vars

\* the suffix each step of a player lookup appends to `data get entity {name}`
StageSuffix ==
    [pos |-> " Pos", idx0 |-> " Pos[0]", idx1 |-> " Pos[1]", idx2 |-> " Pos[2]",
     nbt |-> "", dim |-> " Dimension", dim_nbt |-> ""]

\* byte length of format!("data get entity {safe_name}{suffix}")
data_command_len(safe_name, stage) ==
    Len("data get entity ") + ByteLen(safe_name) + Len(StageSuffix[stage])

\* byte length of format!("tell {safe_name} {safe_message}")
tell_command_len(safe_name, message_bytes) ==
    Len("tell ") + ByteLen(safe_name) + 1 + message_bytes

\* byte length of the fill command of one vertical segment; a dimension comes
\* from dimension_re and is ASCII, so its byte length is its length
fill_command_len(context, seg, safe_block) ==
    Len("execute in ") + Len(context.dimension) + Len(" run fill ")
    + DecLen(context.x1) + 1 + DecLen(seg[1]) + 1 + DecLen(context.z1) + 1
    + DecLen(context.x2) + 1 + DecLen(seg[2]) + 1 + DecLen(context.z2)
    + Len(" air replace ") + ByteLen(safe_block)

\* the commands of delete_block_in_chunk_context, one per segment, by length
FillCommands(context, safe_block) ==
    [i \in 1..Len(context.segments) |->
        fill_command_len(context, context.segments[i], safe_block)]

(***************************************************************************)
(* MinecraftRconService: operations on top of run_command                  *)
(***************************************************************************)
Workers == {"event_worker", "presence_watcher"}

PlayerOps == {"get_player_pos", "get_player_dimension",
              "get_player_chunk_context", "send_private_message"}
BlockOps == {"delete_block_in_chunk_context"}

\* a thread outside the service; iter, last_err, connects, sends and held are
\* the locals of run_command (held: guard.client was Some at entry); debug:
\* the operation has written a "[rcon-debug]" line to the log; commands_sent:
\* the local of delete_block_in_chunk_context, returned in ChunkDeleteResult
IdleThread ==
    [pc |-> "idle", op |-> "", arg |-> <<>>, stage |-> "", command |-> 0,
     pending |-> <<>>, res |-> "", msg |-> "", debug |-> FALSE,
     commands_sent |-> 0,
     iter |-> 0, last_err |-> "", connects |-> 0, sends |-> 0, held |-> FALSE]

RconInit ==
    /\ rcon_lock = "none"
    /\ rcon_conn = "Disconnected"
    /\ client_endpoint = 0
    /\ rt_endpoint = 1
    /\ ui_rcon_ok = FALSE
    /\ th = [t \in Workers |-> IdleThread]
    /\ ui_pc = "idle"

\* the first statement of every operation: validate its argument
ArgValid(op, arg) ==
    IF op \in BlockOps THEN validate_block_id(arg) ELSE validate_player_name(arg)

FirstStage(op) ==
    CASE op \in {"get_player_pos", "get_player_chunk_context"} -> "pos"
      [] op = "get_player_dimension" -> "dim"
      [] op = "send_private_message" -> "tell"
      [] op = "delete_block_in_chunk_context" -> "fill"

Continue(stage) == [stage |-> stage, res |-> "", msg |-> ""]
Return(res) == [stage |-> "", res |-> res, msg |-> ""]

\* Err(PlayerLookupError(..)): the text is the RconError of run_command
\* (`.map_err(|e| PlayerLookupError(e.to_string()))`) or "Cannot parse .."
LookupFailed(rc) ==
    [stage |-> "", res |-> "PlayerLookupError",
     msg |-> IF rc = "Err" THEN "rcon" ELSE "parse"]

\* `self.run_command(&command)?;` in the loop over context.segments
FillAfterGoesOn(rc) == Continue("fill")
FillAfter(rc) == IF rc = "Ok" THEN Continue("fill") ELSE Return("RconError")

\* get_player_pos returned Ok: get_player_chunk_context goes on to the dimension
PosDone(op) ==
    IF op = "get_player_chunk_context" THEN Continue("dim") ELSE Return("Ok")

\* what an operation does with the result of the run_command of its stage;
\* parsed: the response held what the stage looks for
OpAfter(op, stage, rc, parsed) ==
    CASE stage = "pos" ->
            IF rc = "Err" THEN LookupFailed(rc)
            ELSE IF parsed THEN PosDone(op) ELSE Continue("idx0")
      [] stage = "idx0" ->
            IF rc = "Ok" /\ parsed THEN Continue("idx1") ELSE Continue("nbt")
      [] stage = "idx1" ->
            IF rc = "Ok" /\ parsed THEN Continue("idx2") ELSE Continue("nbt")
      [] stage = "idx2" ->
            IF rc = "Ok" /\ parsed THEN PosDone(op) ELSE Continue("nbt")
      [] stage = "nbt" ->
            IF rc = "Ok" /\ parsed THEN PosDone(op) ELSE LookupFailed(rc)
      [] stage = "dim" ->
            IF rc = "Err" THEN LookupFailed(rc)
            ELSE IF parsed THEN Return("Ok") ELSE Continue("dim_nbt")
      [] stage = "dim_nbt" ->
            IF rc = "Ok" /\ parsed THEN Return("Ok") ELSE LookupFailed(rc)
      [] stage = "tell" ->
            IF rc = "Ok" THEN Return("Ok") ELSE Return("RconError")
      [] stage = "fill" -> FillAfter(rc)

\* the stages whose reply goes through is_rcon_error_like when it does not
\* hold what the stage looks for
DebugStages == {"pos", "idx0", "idx1", "idx2", "nbt", "dim", "dim_nbt"}

\* the thread after run_command returned rc to its operation: the locals of
\* run_command are gone, the operation returns or builds its next command;
\* reply: "parsed" (the response holds what the stage looks for), "unparsed",
\* or "error_like" (unparsed, and is_rcon_error_like)
Resumed(cur, rc, reply) ==
    LET parsed == reply = "parsed"
        after == OpAfter(cur.op, cur.stage, rc, parsed)
        back == [IdleThread EXCEPT !.op = cur.op, !.arg = cur.arg,
                                   !.stage = cur.stage, !.pending = cur.pending,
                                   !.commands_sent =
                                       IF cur.stage = "fill" /\ rc = "Ok"
                                       THEN cur.commands_sent + 1
                                       ELSE cur.commands_sent,
                                   !.debug = \/ cur.debug
                                             \/ /\ rc = "Ok"
                                                /\ reply = "error_like"
                                                /\ cur.stage \in DebugStages]
    IN IF after.stage = ""
       THEN [back EXCEPT !.pc = "ret", !.stage = "", !.pending = <<>>,
                         !.res = after.res, !.msg = after.msg]
       ELSE IF after.stage # "fill"
       THEN [back EXCEPT !.pc = "call", !.stage = after.stage,
                         !.command = data_command_len(cur.arg, after.stage)]
       ELSE IF cur.pending = <<>>
       THEN [back EXCEPT !.pc = "ret", !.stage = "", !.res = "Ok"]
       ELSE [back EXCEPT !.pc = "call", !.command = Head(cur.pending),
                         !.pending = Tail(cur.pending)]

\* an operation is called: validation, then its first command
OpStart(t, op, arg, context, message_bytes) ==
    /\ th[t].pc = "idle"
    /\ \E started \in {[IdleThread EXCEPT !.op = op, !.arg = arg]} :
         \E commands \in {IF op \in BlockOps THEN FillCommands(context, arg)
                          ELSE IF op = "send_private_message"
                          THEN <<tell_command_len(arg, message_bytes)>>
                          ELSE <<data_command_len(arg, FirstStage(op))>>} :
            th' = [th EXCEPT ![t] =
                     IF ~ArgValid(op, arg)
                     THEN [started EXCEPT !.pc = "ret", !.res = "ValidationError"]
                     ELSE IF commands = <<>>
                     THEN [started EXCEPT !.pc = "ret", !.res = "Ok"]
                     ELSE [started EXCEPT !.pc = "call",
                                          !.stage = FirstStage(op),
                                          !.command = Head(commands),
                                          !.pending = Tail(commands)]]
    /\ UNCHANGED <<rcon_lock, rcon_conn, client_endpoint, rt_endpoint, ui_rcon_ok, ui_pc,
                   pipeline_vars, aux_vars>>

\* the operation returned to its caller
OpReturn(t) ==
    /\ th[t].pc = "ret"
    /\ th' = [th EXCEPT ![t] = IdleThread]
    /\ UNCHANGED <<rcon_lock, rcon_conn, client_endpoint, rt_endpoint, ui_rcon_ok, ui_pc,
                   pipeline_vars, aux_vars>>

(***************************************************************************)
(* MinecraftRconService::run_command, update_endpoint, close               *)
(***************************************************************************)
\* Mutex::lock returns only while no thread holds the guard
LockAlwaysFree == TRUE
LockFree == rcon_lock = "none"

\* `for _ in 0..2`
LoopContinuesThrice(iter) == iter <= RetryAttempts
LoopContinues(iter) == iter < RetryAttempts

\* the endpoint of the socket of guard.client
EndpointOf(conn, endpoint) == IF conn = "Disconnected" THEN 0 ELSE endpoint

\* guard.client after update_endpoint: `guard.client = None`
ClientKeptAfterUpdate(conn) == conn
ClientAfterUpdate(conn) == "Disconnected"

\* guard.client after a failed connect or cmd: `guard.client = None`
ClientKeptAfterError(conn) == IF conn = "Ready" THEN "Ready" ELSE "Disconnected"
ClientAfterError(conn) == "Disconnected"

\* the calling thread takes the runtime mutex
RcLock(t) ==
    /\ th[t].pc = "call"
    /\ LockFree
    /\ rcon_lock' = t
    /\ th' = [th EXCEPT ![t] =
                [th[t] EXCEPT !.pc = "loop", !.held = (rcon_conn = "Ready")]]
    /\ UNCHANGED <<rcon_conn, client_endpoint, rt_endpoint, ui_rcon_ok, ui_pc, pipeline_vars, aux_vars>>

\* Err(e) of connect or cmd: last_err = Some(e); guard.client = None; next turn
Failed(t, cur, kind) ==
    /\ th' = [th EXCEPT ![t] =
                [cur EXCEPT !.pc = "loop", !.iter = @ + 1, !.last_err = kind]]
    /\ rcon_conn' = ClientAfterError(rcon_conn)
    /\ client_endpoint' = EndpointOf(rcon_conn', client_endpoint)

\* MinecraftRconClient::connect up to the auth packet: resolve, TCP connect,
\* timeouts, send_packet(3, password)
RcConnectOpen(t) ==
    /\ th[t].pc = "loop"
    /\ LoopContinues(th[t].iter)
    /\ rcon_conn # "Ready"
    /\ \E cur \in {[th[t] EXCEPT !.connects = @ + 1]} :
         \E outcome \in {"auth_sent", "io_error"} :
            IF outcome = "auth_sent"
            THEN /\ rcon_conn' = "Authenticating"
                 /\ client_endpoint' = rt_endpoint
                 /\ th' = [th EXCEPT ![t] = [cur EXCEPT !.pc = "auth"]]
            ELSE Failed(t, cur, "transport")
    /\ UNCHANGED <<rcon_lock, rt_endpoint, ui_rcon_ok, ui_pc, pipeline_vars, aux_vars>>

\* MinecraftRconClient::connect, the loop reading the auth reply
RcConnectAuth(t) ==
    /\ th[t].pc = "auth"
    /\ \E reply \in {"accepted", "id_minus_one", "io_error"} :
         CASE reply = "accepted" ->
                 /\ rcon_conn' = "Ready"
                 /\ UNCHANGED client_endpoint
                 /\ th' = [th EXCEPT ![t] = [th[t] EXCEPT !.pc = "loop"]]
           [] reply = "id_minus_one" -> Failed(t, th[t], "auth")
           [] reply = "io_error" -> Failed(t, th[t], "transport")
    /\ UNCHANGED <<rcon_lock, rt_endpoint, ui_rcon_ok, ui_pc, pipeline_vars, aux_vars>>

\* MinecraftRconClient::cmd up to send_packet(2, cmd)
RcCmdSend(t) ==
    /\ th[t].pc = "loop"
    /\ LoopContinues(th[t].iter)
    /\ rcon_conn = "Ready"
    /\ IF th[t].command > MaxCommandBytes
       THEN /\ Failed(t, th[t], "too_long")
            /\ ui_rcon_ok' = FALSE
       ELSE \E cur \in {[th[t] EXCEPT !.sends = @ + 1]} :
              \E outcome \in {"written", "io_error"} :
                 IF outcome = "written"
                 THEN /\ th' = [th EXCEPT ![t] = [cur EXCEPT !.pc = "sent"]]
                      /\ UNCHANGED <<rcon_conn, client_endpoint, ui_rcon_ok>>
                 ELSE /\ Failed(t, cur, "transport")
                      /\ ui_rcon_ok' = FALSE
    /\ UNCHANGED <<rcon_lock, rt_endpoint, ui_pc, pipeline_vars, aux_vars>>

\* MinecraftRconClient::cmd, the loop reading the response; on Ok run_command
\* returns, the guard is dropped and the operation goes on
RcCmdRead(t) ==
    /\ th[t].pc = "sent"
    /\ \E outcome \in {"parsed", "unparsed", "error_like", "io_error"} :
         IF outcome = "io_error"
         THEN /\ Failed(t, th[t], "transport")
              /\ ui_rcon_ok' = FALSE
              /\ UNCHANGED rcon_lock
         ELSE /\ ui_rcon_ok' = TRUE
              /\ th' = [th EXCEPT ![t] = Resumed(th[t], "Ok", outcome)]
              /\ rcon_lock' = "none"
              /\ UNCHANGED <<rcon_conn, client_endpoint>>
    /\ UNCHANGED <<rt_endpoint, ui_pc, pipeline_vars, aux_vars>>

\* the loop is over: ui_set_rcon(false), Err(RconError), the guard is dropped
\* and the operation goes on
RcExhausted(t) ==
    /\ th[t].pc = "loop"
    /\ ~LoopContinues(th[t].iter)
    /\ ui_rcon_ok' = FALSE
    /\ th' = [th EXCEPT ![t] = Resumed(th[t], "Err", "none")]
    /\ rcon_lock' = "none"
    /\ UNCHANGED <<rcon_conn, client_endpoint, rt_endpoint, ui_pc, pipeline_vars, aux_vars>>

Endpoints == {1, 2}

\* update_endpoint, the block holding the guard
UpdateEndpoint(endpoint) ==
    /\ ui_pc = "idle"
    /\ LockFree
    /\ rt_endpoint' = endpoint
    /\ rcon_conn' = ClientAfterUpdate(rcon_conn)
    /\ client_endpoint' = EndpointOf(rcon_conn', client_endpoint)
    /\ ui_pc' = "upd_ui"
    /\ UNCHANGED <<rcon_lock, ui_rcon_ok, th, pipeline_vars, aux_vars>>

\* update_endpoint, ui_set_rcon(false) after the guard is dropped
UpdateEndpointUi ==
    /\ ui_pc = "upd_ui"
    /\ ui_rcon_ok' = FALSE
    /\ ui_pc' = "idle"
    /\ UNCHANGED <<rcon_lock, rcon_conn, client_endpoint, rt_endpoint, th, pipeline_vars, aux_vars>>

\* close
Close ==
    /\ ui_pc = "idle"
    /\ LockFree
    /\ rcon_conn' = "Disconnected"
    /\ client_endpoint' = 0
    /\ UNCHANGED <<rcon_lock, rt_endpoint, ui_rcon_ok, th, ui_pc, pipeline_vars, aux_vars>>

(***************************************************************************)
(* The threads of run / run_headless_with_shutdown and their channels      *)
(***************************************************************************)
\* the 'q' key, the Ctrl+C handler or the UI asks for shutdown
RequestShutdown ==
    /\ main_pc = "running"
    /\ ~shutdown
    /\ shutdown' = TRUE
    /\ UNCHANGED <<pcm_open, text_chan, rec_pc, rt_ew, rt_pw, main_pc,
                   non_runtime_vars, rcon_vars>>

\* the wait loop of run sees the flag and leaves
MainLeaveLoop ==
    /\ main_pc = "running"
    /\ shutdown
    /\ main_pc' = "stop_mic"
    /\ UNCHANGED <<shutdown, pcm_open, text_chan, rec_pc, rt_ew, rt_pw,
                   non_runtime_vars, rcon_vars>>

\* drop(pcm_tx); microphone.stop(): the last Sender of the PCM channel goes
MainStopMic ==
    /\ main_pc = "stop_mic"
    /\ pcm_open' = FALSE
    /\ main_pc' = "close"
    /\ UNCHANGED <<shutdown, text_chan, rec_pc, rt_ew, rt_pw,
                   non_runtime_vars, rcon_vars>>

\* self.rcon.close()
MainClose ==
    /\ main_pc = "close"
    /\ LockFree
    /\ rcon_conn' = "Disconnected"
    /\ client_endpoint' = 0
    /\ main_pc' = "join"
    /\ UNCHANGED <<shutdown, pcm_open, text_chan, rec_pc, rt_ew, rt_pw,
                   non_runtime_vars, rcon_lock, rt_endpoint, ui_rcon_ok, th, ui_pc>>

\* recognizer_handle.join() returns; the two other handles are dropped and
\* the function returns
MainJoinAndReturn ==
    /\ main_pc = "join"
    /\ rec_pc = "done"
    /\ main_pc' = "returned"
    /\ UNCHANGED <<shutdown, pcm_open, text_chan, rec_pc, rt_ew, rt_pw,
                   non_runtime_vars, rcon_vars>>

\* pcm_rx.recv_timeout returned a chunk: it yields an event to send or not
RecAccept ==
    /\ rec_pc = "recv"
    /\ rec_pc' = "send"
    /\ UNCHANGED <<shutdown, pcm_open, text_chan, rt_ew, rt_pw, main_pc,
                   non_runtime_vars, rcon_vars>>

\* recv_timeout timed out with the flag set, or the channel is disconnected:
\* the loop is left, final_result yields a last event or not
RecLeaveLoop ==
    /\ rec_pc = "recv"
    /\ shutdown \/ ~pcm_open
    /\ \E last \in {"final_send", "done"} : rec_pc' = last
    /\ UNCHANGED <<shutdown, pcm_open, text_chan, rt_ew, rt_pw, main_pc,
                   non_runtime_vars, rcon_vars>>

\* where the recognizer goes on after a send
AfterSend(pc) == IF pc \in {"send", "blocked"} THEN "recv" ELSE "done"

\* text_tx.send(event): the event is queued, or the receiver is gone and the
\* error is ignored, or the channel is full and the thread parks
RecSend ==
    /\ rec_pc \in {"send", "final_send"}
    /\ IF rt_ew = "done"
       THEN rec_pc' = AfterSend(rec_pc) /\ UNCHANGED text_chan
       ELSE IF text_chan < ChannelCapacity
       THEN rec_pc' = AfterSend(rec_pc) /\ text_chan' = text_chan + 1
       ELSE /\ rec_pc' = (IF rec_pc = "send" THEN "blocked" ELSE "final_blocked")
            /\ UNCHANGED text_chan
    /\ UNCHANGED <<shutdown, pcm_open, rt_ew, rt_pw, main_pc,
                   non_runtime_vars, rcon_vars>>

\* the parked send is woken: there is room, or the receiver is gone
RecWake ==
    /\ rec_pc \in {"blocked", "final_blocked"}
    /\ text_chan < ChannelCapacity \/ rt_ew = "done"
    /\ rec_pc' = AfterSend(rec_pc)
    /\ text_chan' = (IF rt_ew = "done" THEN text_chan ELSE text_chan + 1)
    /\ UNCHANGED <<shutdown, pcm_open, rt_ew, rt_pw, main_pc,
                   non_runtime_vars, rcon_vars>>

\* text_rx.recv_timeout returned an event: the event worker handles it
RtEwTake ==
    /\ rt_ew = "recv"
    /\ text_chan > 0
    /\ text_chan' = text_chan - 1
    /\ rt_ew' = "busy"
    /\ UNCHANGED <<shutdown, pcm_open, rec_pc, rt_pw, main_pc,
                   non_runtime_vars, rcon_vars>>

\* the event is handled
RtEwHandled ==
    /\ rt_ew = "busy"
    /\ rt_ew' = "recv"
    /\ UNCHANGED <<shutdown, pcm_open, text_chan, rec_pc, rt_pw, main_pc,
                   non_runtime_vars, rcon_vars>>

\* recv_timeout timed out with the flag set, or every Sender is gone
RtEwLeaveLoop ==
    /\ rt_ew = "recv"
    /\ text_chan = 0
    /\ shutdown \/ rec_pc = "done"
    /\ rt_ew' = "done"
    /\ UNCHANGED <<shutdown, pcm_open, text_chan, rec_pc, rt_pw, main_pc,
                   non_runtime_vars, rcon_vars>>

\* `while !shutdown.load(Ordering::Relaxed)`: where the watcher goes on
WatcherPollsOn(flag) == "poll"
WatcherAfterCheck(flag) == IF flag THEN "done" ELSE "poll"

\* `while !shutdown.load(..)` of the presence watcher
RtPwCheck ==
    /\ rt_pw = "check"
    /\ rt_pw' = WatcherAfterCheck(shutdown)
    /\ UNCHANGED <<shutdown, pcm_open, text_chan, rec_pc, rt_ew, main_pc,
                   non_runtime_vars, rcon_vars>>

\* the poll of the presence watcher, then thread::sleep(2 s)
RtPwPoll ==
    /\ rt_pw \in {"poll", "sleep"}
    /\ rt_pw' = (IF rt_pw = "poll" THEN "sleep" ELSE "check")
    /\ UNCHANGED <<shutdown, pcm_open, text_chan, rec_pc, rt_ew, main_pc,
                   non_runtime_vars, rcon_vars>>

(***************************************************************************)
(* Event worker: BlockDeleteController::spawn_event_worker                 *)
(***************************************************************************)
NoContext == [some |-> FALSE]
DefaultPartialProgress == [last_partial |-> <<>>, processed_committed_words |-> 0]

\* variant: the counter is forgotten on every partial
ResetCommittedAlways(st, cleaned) == 0

\* variant: the counter survives a revised partial
ResetCommittedNever(st, cleaned) == st.processed_committed_words

\* the committed-word counter the diff starts from (reset on a revised partial)
ResetCommitted(st, cleaned) ==
    IF ~starts_with(cleaned, st.last_partial)
    THEN 0
    ELSE st.processed_committed_words

\* the length test of a committed word
WordLongEnough(word) == ByteLen(word) >= 2

\* the partial branch: candidates and the new PartialProgressState
PartialStep(st, cleaned) ==
    LET current_words == split_whitespace(cleaned)
        committed_count == Max(Len(current_words) - 1, 0)
        start_idx == Min(ResetCommitted(st, cleaned), committed_count)
        taken == SubSeq(current_words, start_idx + 1, committed_count)
    IN [out |-> SelectSeq(taken, WordLongEnough),
        st |-> [last_partial |-> cleaned,
                processed_committed_words |-> committed_count]]

\* variant: a final event leaves the partial-progress state alone
ProgressKept(progress, speaker_id) == progress

\* partial_progress.remove(&event.speaker_id)
ProgressRemoved(progress, speaker_id) ==
    [k \in DOMAIN progress \ {speaker_id} |-> progress[k]]

\* candidates of an event and the new partial_progress map
Candidates(progress, event, cleaned) ==
    IF event.is_partial
    THEN LET st == IF event.speaker_id \in DOMAIN progress
                   THEN progress[event.speaker_id]
                   ELSE DefaultPartialProgress
             r == PartialStep(st, cleaned)
         IN [out |-> r.out,
             progress |-> [k \in DOMAIN progress \cup {event.speaker_id} |->
                             IF k = event.speaker_id THEN r.st ELSE progress[k]]]
    ELSE [out |-> <<cleaned>>,
          progress |-> ProgressRemoved(progress, event.speaker_id)]

\* variant: the count restarts already when the gap equals the window
GateCountResetAtWindow(gate, key, t) ==
    LET state == IF key \in DOMAIN gate THEN gate[key]
                 ELSE [last_seen |-> t, count |-> 0]
    IN IF t - state.last_seen >= repeat_window
       THEN 1
       ELSE state.count + 1

\* the rolling count of a key after one more occurrence at time t
GateCount(gate, key, t) ==
    LET state == IF key \in DOMAIN gate THEN gate[key]
                 ELSE [last_seen |-> t, count |-> 0]
    IN IF t - state.last_seen > repeat_window
       THEN 1
       ELSE state.count + 1

\* variant: 8, 16, ... pass
GatePassesEveryEighth(count) == count % RepeatEvery = 0

\* 1, 9, 17, ... pass
GatePasses(count) == (count - 1) % RepeatEvery = 0

\* history of the current rapid run of a key: an occurrence continues the run
\* when it comes no more than the repeat window after the previous one; left:
\* the length of the run that this one came after (0: none, 2: two or more)
RunAfter(runs, key, t, pass) ==
    LET fresh == key \notin DOMAIN runs \/ t - runs[key].at > repeat_window
        k == IF fresh THEN 1 ELSE runs[key].k + 1
        before == IF fresh THEN {} ELSE runs[key].passed_at
    IN [k |-> k, at |-> t,
        passed_at |-> IF pass THEN before \cup {k} ELSE before,
        left |-> IF key \notin DOMAIN runs THEN 0
                 ELSE IF fresh THEN Min(runs[key].k, 2) ELSE runs[key].left]

\* the loop over the candidates of one event
RECURSIVE GateLoop(_, _, _, _, _, _)
GateLoop(gate, runs, speaker, candidates, t, acc) ==
    IF candidates = <<>>
    THEN [gate |-> gate, runs |-> runs, passed |-> acc.passed, block_ids |-> acc.block_ids]
    ELSE LET candidate == Head(candidates)
             key == <<speaker, candidate>>
             count == GateCount(gate, key, t)
             pass == GatePasses(count)
             gate2 == [k \in DOMAIN gate \cup {key} |->
                         IF k = key THEN [last_seen |-> t, count |-> count]
                         ELSE gate[k]]
             runs2 == [k \in DOMAIN runs \cup {key} |->
                         IF k = key THEN RunAfter(runs, key, t, pass)
                         ELSE runs[k]]
             acc2 == IF pass
                     THEN [passed |-> Append(acc.passed, candidate),
                           block_ids |-> PushUnseen(acc.block_ids,
                                              match_blocks(candidate, fuzzy_threshold))]
                     ELSE acc
         IN GateLoop(gate2, runs2, speaker, Tail(candidates), t, acc2)

\* history of the current run of partials (each text extending the previous);
\* closed: a final event has ended a run of partials
NoPartialRun ==
    [active |-> FALSE, prev |-> <<>>, emitted |-> <<>>, revised |-> FALSE, before |-> 0,
     closed |-> FALSE]

PartialRunAfter(run, event, cleaned, out, before) ==
    IF ~event.is_partial
    THEN [NoPartialRun EXCEPT !.closed = run.active \/ run.closed]
    ELSE IF run.active /\ starts_with(cleaned, run.prev)
         THEN [active |-> TRUE, prev |-> cleaned, emitted |-> run.emitted \o out,
               revised |-> FALSE, before |-> before, closed |-> FALSE]
         ELSE [active |-> TRUE, prev |-> cleaned, emitted |-> out,
               revised |-> run.active, before |-> before, closed |-> FALSE]

\* the committed-word counter stored for a speaker
StoredCommitted(progress, speaker) ==
    IF speaker \in DOMAIN progress
    THEN progress[speaker].processed_committed_words
    ELSE 0

PipelineInit(names) ==
    /\ now = 0
    /\ player_name \in names
    /\ partial_progress = <<>>
    /\ repeat_gate = <<>>
    /\ last_trigger = <<>>
    /\ cached_chunk = NoContext
    /\ ew_pc = "recv"
    /\ ew_candidates = <<>>
    /\ ew_passed = <<>>
    /\ ew_block_ids = <<>>
    /\ ew_ctx = NoContext
    /\ ew_lookups = 0
    /\ ew_checks = <<>>
    /\ ew_logs = <<>>
    /\ ui_player_online = FALSE
    /\ gate_run = <<>>
    /\ partial_run = NoPartialRun
    /\ trigger_hist = <<>>
    /\ RconInit
    /\ AuxInit

\* recv_timeout returned Ok(event): normalize, diff, gate, match
EwRecv(event) ==
    /\ ew_pc = "recv"
    /\ ew_lookups' = 0
    /\ ew_checks' = <<>>
    /\ ew_ctx' = NoContext
    /\ \E cleaned \in {normalize_text(event.text)} :
          IF Len(cleaned) < min_phrase_chars
          THEN /\ ew_candidates' = <<>>
               /\ ew_passed' = <<>>
               /\ ew_block_ids' = <<>>
               /\ ew_logs' = <<>>
               /\ partial_run' = [partial_run EXCEPT !.revised = FALSE]
               /\ UNCHANGED <<partial_progress, repeat_gate, gate_run, ew_pc>>
          ELSE IF event.speaker_id # MIC_SPEAKER_ID
          THEN /\ ew_candidates' = <<>>
               /\ ew_passed' = <<>>
               /\ ew_block_ids' = <<>>
               /\ ew_logs' = <<"mapping-warning">>
               /\ partial_run' = [partial_run EXCEPT !.revised = FALSE]
               /\ UNCHANGED <<partial_progress, repeat_gate, gate_run, ew_pc>>
          ELSE \E c \in {Candidates(partial_progress, event, cleaned)} :
               \E g \in {GateLoop(repeat_gate, gate_run, event.speaker_id, c.out, now,
                                  [passed |-> <<>>, block_ids |-> <<>>])} :
                  /\ partial_progress' = c.progress
                  /\ partial_run' = PartialRunAfter(partial_run, event, cleaned, c.out,
                                       StoredCommitted(partial_progress, event.speaker_id))
                  /\ ew_candidates' = c.out
                  /\ repeat_gate' = g.gate
                  /\ gate_run' = g.runs
                  /\ ew_passed' = g.passed
                  /\ ew_block_ids' = g.block_ids
                  /\ ew_logs' = <<>>
                  /\ ew_pc' = IF g.block_ids = <<>> THEN "recv" ELSE "lookup"
    /\ UNCHANGED <<now, player_name, last_trigger, cached_chunk, ui_player_online,
                   trigger_hist, rcon_vars, aux_vars>>

\* variant: a context exactly chunk_cache_ttl old is no longer reused
CacheFreshStrict(cache, name, t) ==
    /\ cache.some
    /\ cache.context.player_name = name
    /\ t - cache.fetched_at < chunk_cache_ttl

\* the cached context is reused
CacheFresh(cache, name, t) ==
    /\ cache.some
    /\ cache.context.player_name = name
    /\ t - cache.fetched_at <= chunk_cache_ttl

ChunkXs == {0, 1}

\* cached_chunk after a lookup that failed: `cached_chunk = None` where a
\* stale context was held, None as before otherwise
CacheKeptAfterFailure(cache) == cache
CacheAfterFailure(cache) == NoContext

\* the `continue` of the Err arms of the lookup: back to recv_timeout
LookupFailureStops == "done"
LookupFailureContinues == "recv"

\* the chunk context of the event: cache or get_player_chunk_context
EwLookup ==
    /\ ew_pc = "lookup"
    /\ IF CacheFresh(cached_chunk, player_name, now)
       THEN /\ ew_ctx' = [some |-> TRUE, context |-> cached_chunk.context]
            /\ ew_pc' = "trigger"
            /\ UNCHANGED <<cached_chunk, ew_lookups, ew_logs, ui_player_online>>
       ELSE /\ ew_lookups' = ew_lookups + 1
            /\ IF ~validate_player_name(player_name)
               THEN /\ cached_chunk' = CacheAfterFailure(cached_chunk)
                    /\ ew_logs' = Append(ew_logs, "rcon-error")
                    /\ ew_ctx' = NoContext
                    /\ ew_pc' = LookupFailureContinues
                    /\ UNCHANGED ui_player_online
               ELSE \/ \E cx \in ChunkXs :
                         LET ctx == [player_name |-> player_name, chunk_x |-> cx]
                         IN /\ cached_chunk' = [some |-> TRUE, fetched_at |-> now,
                                                context |-> ctx]
                            /\ ew_ctx' = [some |-> TRUE, context |-> ctx]
                            /\ ew_pc' = "trigger"
                            /\ UNCHANGED <<ew_logs, ui_player_online>>
                    \/ /\ cached_chunk' = CacheAfterFailure(cached_chunk)
                       /\ ui_player_online' = FALSE
                       /\ ew_logs' = Append(ew_logs, "rcon-player-error")
                       /\ ew_ctx' = NoContext
                       /\ ew_pc' = LookupFailureContinues
    /\ UNCHANGED <<now, player_name, partial_progress, repeat_gate, last_trigger,
                   ew_candidates, ew_passed, ew_block_ids, ew_checks, gate_run,
                   partial_run, trigger_hist, rcon_vars, aux_vars>>

\* variant: a trigger exactly cooldown_seconds later is still suppressed
InCooldownInclusive(ledger, key, t) ==
    /\ key \in DOMAIN ledger
    /\ t - ledger[key] <= cooldown_seconds

\* the trigger is suppressed by the cooldown ledger
InCooldown(ledger, key, t) ==
    /\ key \in DOMAIN ledger
    /\ t - ledger[key] < cooldown_seconds

\* `last_trigger.insert(key, now)`, before delete_block_in_chunk_context
LedgerUntouched(ledger, key, t) == ledger
LedgerInsert(ledger, key, t) ==
    [k \in DOMAIN ledger \cup {key} |-> IF k = key THEN t ELSE ledger[k]]

\* one iteration of the loop over block_ids: cooldown check and deleteInChunk
EwTrigger ==
    /\ ew_pc = "trigger"
    /\ ew_block_ids # <<>>
    /\ LET block_id == Head(ew_block_ids)
           key == <<player_name, block_id>>
           prev == IF key \in DOMAIN trigger_hist THEN trigger_hist[key] ELSE -1
           rest == Tail(ew_block_ids)
       IN /\ ew_block_ids' = rest
          /\ ew_pc' = IF rest = <<>> THEN "recv" ELSE "trigger"
          /\ IF InCooldown(last_trigger, key, now)
             THEN /\ ew_checks' = Append(ew_checks,
                        [block_id |-> block_id, at |-> now, prev |-> prev,
                         called |-> FALSE])
                  /\ UNCHANGED <<last_trigger, trigger_hist, ew_logs, ui_player_online>>
             ELSE /\ last_trigger' = LedgerInsert(last_trigger, key, now)
                  /\ trigger_hist' = [k \in DOMAIN trigger_hist \cup {key} |->
                                         IF k = key THEN now ELSE trigger_hist[k]]
                  /\ ew_checks' = Append(ew_checks,
                        [block_id |-> block_id, at |-> now, prev |-> prev,
                         called |-> TRUE])
                  /\ IF ~validate_block_id(block_id)
                     THEN /\ ew_logs' = Append(ew_logs, "rcon-error")
                          /\ UNCHANGED ui_player_online
                     ELSE \/ /\ ui_player_online' = TRUE
                             /\ ew_logs' = Append(ew_logs, "trigger")
                          \/ /\ ew_logs' = Append(ew_logs, "rcon-error")
                             /\ UNCHANGED ui_player_online
    /\ UNCHANGED <<now, player_name, partial_progress, repeat_gate, cached_chunk,
                   ew_candidates, ew_passed, ew_ctx, ew_lookups, gate_run,
                   partial_run, rcon_vars, aux_vars>>

\* time passes
Tick(d, limit) ==
    /\ now + d <= limit
    /\ now' = now + d
    /\ UNCHANGED <<player_name, partial_progress, repeat_gate, last_trigger,
                   cached_chunk, ew_pc, ew_candidates, ew_passed, ew_block_ids,
                   ew_ctx, ew_lookups, ew_checks, ew_logs, ui_player_online,
                   gate_run, partial_run, trigger_hist, rcon_vars, aux_vars>>

(***************************************************************************)
(* Inputs                                                                  *)
(***************************************************************************)
ValidPlayer == <<"S", "t", "e", "v", "e">>
InvalidPlayer == <<"M", " ", "D">>

\* words the recognizer may produce
Vocabulary == {<<"a">>, <<"YA", ".">>}

RECURSIVE TextsOf(_)
TextsOf(n) ==
    IF n = 1 THEN Vocabulary
    ELSE {t \o <<" ">> \o w : t \in TextsOf(n - 1), w \in Vocabulary}

RawTexts == UNION {TextsOf(n) : n \in 1..MaxWords}

PartialEvents ==
    [speaker_id : {MIC_SPEAKER_ID}, text : RawTexts, is_partial : {TRUE}]

\* no rolling count above the bound
CountsWithin(limit) == \A key \in DOMAIN repeat_gate : repeat_gate[key].count <= limit

PartialInit == PipelineInit({ValidPlayer})

PartialNext ==
    \/ \E event \in PartialEvents : EwRecv(event) /\ CountsWithin(MaxRepeat)'
    \/ Tick(repeat_window + 1, MaxPartialTime)

\* partial events of words that name no block
SpecPartial == PartialInit /\ [][PartialNext]_vars

\* final and partial events of texts that name no block, in rapid succession
GateEvents ==
    {[speaker_id |-> MIC_SPEAKER_ID, text |-> <<"a", "ya">>, is_partial |-> FALSE],
     [speaker_id |-> MIC_SPEAKER_ID, text |-> <<"YA", ".", " ", "a">>, is_partial |-> FALSE],
     [speaker_id |-> MIC_SPEAKER_ID, text |-> <<"a", "ya", " ", "a">>, is_partial |-> TRUE]}

GateInit == PipelineInit({ValidPlayer})

GateNext ==
    \/ \E event \in GateEvents : EwRecv(event) /\ CountsWithin(MaxGateCount)'
    \/ \E d \in {repeat_window, repeat_window + 1} : Tick(d, MaxGateTime)

SpecGate == GateInit /\ [][GateNext]_vars

\* final events of texts that name blocks
CoolEvents ==
    {[speaker_id |-> MIC_SPEAKER_ID, text |-> <<"D", "yo">>, is_partial |-> FALSE],
     [speaker_id |-> MIC_SPEAKER_ID, text |-> <<"d", " ", "eh">>, is_partial |-> FALSE]}

CoolInit == PipelineInit({ValidPlayer, InvalidPlayer})

CoolNext ==
    \/ \E event \in CoolEvents : EwRecv(event) /\ CountsWithin(MaxCoolCount)'
    \/ EwLookup
    \/ EwTrigger
    \/ \E d \in {repeat_window, cooldown_seconds - 1} : Tick(d, MaxCoolTime)

SpecCooldown == CoolInit /\ [][CoolNext]_vars

\* final events of a text that names a block and of one that names none,
\* around the time to live of the cached chunk context
CacheEvents ==
    {[speaker_id |-> MIC_SPEAKER_ID, text |-> <<"D", "yo">>, is_partial |-> FALSE],
     [speaker_id |-> MIC_SPEAKER_ID, text |-> <<"a", "ya">>, is_partial |-> FALSE]}

CacheInit == PipelineInit({ValidPlayer})

CacheNext ==
    \/ \E event \in CacheEvents : EwRecv(event) /\ CountsWithin(MaxCoolCount)'
    \/ EwLookup
    \/ EwTrigger
    \/ \E d \in {chunk_cache_ttl, chunk_cache_ttl + 1} : Tick(d, MaxCacheTime)

SpecCache == CacheInit /\ [][CacheNext]_vars

(***************************************************************************)
(* The RCON service under its callers                                      *)
(***************************************************************************)
\* player names a configuration may hold (validate_runtime_config only
\* rejects the empty one after trimming; the operations take any &str)
LongPlayer == [i \in 1..17 |-> "a"]
PlayerNames == {ValidPlayer, InvalidPlayer, LongPlayer, <<>>}

\* block identifiers
BlockIds == {BlockDirt, <<"d", "i", "r", "t">>, MinecraftPrefix,
             MinecraftPrefix \o <<"D", "i", "r", "t">>}

OverworldDimension ==
    MinecraftPrefix \o <<"o", "v", "e", "r", "w", "o", "r", "l", "d">>
\* the shortest dimension name whose fill command passes MaxCommandBytes
LongDimension == MinecraftPrefix \o [i \in 1..1339 |-> "a"]

\* PlayerChunkContext values: the chunk at the origin, default y limits
ContextIn(dimension) ==
    [dimension |-> dimension, x1 |-> 0, x2 |-> 15, z1 |-> 0, z2 |-> 15,
     segments |-> build_vertical_segments(0 - 64, 319)]
Contexts == {ContextIn(OverworldDimension), ContextIn(LongDimension)}

\* "[BlockDelete] ..." of the presence watcher, in bytes
NotifyMessageBytes == 52

\* the operations each thread calls: the event worker looks the player up
\* and deletes, the presence watcher looks the player up and notifies
OpsOf ==
    [event_worker |-> {"get_player_chunk_context", "get_player_pos",
                       "delete_block_in_chunk_context"},
     presence_watcher |-> {"get_player_chunk_context", "get_player_dimension",
                           "send_private_message"}]

RconStart == PipelineInit({ValidPlayer})

RconNext ==
    \/ \E t \in Workers : \E op \in OpsOf[t] \cap PlayerOps, arg \in PlayerNames :
          OpStart(t, op, arg, ContextIn(OverworldDimension), NotifyMessageBytes)
    \/ \E t \in Workers : \E op \in OpsOf[t] \cap BlockOps, arg \in BlockIds,
                              context \in Contexts :
          OpStart(t, op, arg, context, 0)
    \/ \E t \in Workers : RcLock(t)
    \/ \E t \in Workers : RcConnectOpen(t)
    \/ \E t \in Workers : RcConnectAuth(t)
    \/ \E t \in Workers : RcCmdSend(t)
    \/ \E t \in Workers : RcCmdRead(t)
    \/ \E t \in Workers : RcExhausted(t)
    \/ \E t \in Workers : OpReturn(t)
    \/ \E endpoint \in Endpoints : UpdateEndpoint(endpoint)
    \/ UpdateEndpointUi
    \/ Close

SpecRcon == RconStart /\ [][RconNext]_vars

(***************************************************************************)
(* build_vertical_segments over budgets and ranges                         *)
(***************************************************************************)
\* fill_max_blocks values AppConfig::load lets through (usize, at least 1)
\* (the last one is 2^40)
Budgets == {Usize(0, 1), Usize(0, 255), Usize(0, 256), Usize(0, 511),
            Usize(0, 512), Usize(0, 768), Usize(0, 32768), Usize(65536, 0)}

\* small ranges under every budget, the default range under the default budget
SegmentInputs ==
    {<<budget, y_min, y_max>> :
        budget \in Budgets, y_min \in (0 - MaxSegY)..MaxSegY,
        y_max \in (0 - MaxSegY)..MaxSegY}
    \cup {<<Usize(0, 32768), 0 - 64, 319>>}

SegmentsStart == PipelineInit({ValidPlayer})

SegmentsNext ==
    \/ \E input \in SegmentInputs :
          input[2] <= input[3] /\ BvsCall(input[1], input[2], input[3])
    \/ BvsLoop(MaxSegments)

SpecSegments == SegmentsStart /\ [][SegmentsNext]_vars

(***************************************************************************)
(* chunk_origin over positions on both sides of zero                       *)
(***************************************************************************)
CoordTenths == (0 - MaxCoordTenths)..MaxCoordTenths

ChunkStart == PipelineInit({ValidPlayer})

ChunkNext ==
    \E x \in CoordTenths, z \in {0 - 59, 0 - 160, 0, 159} : ChunkBoxCall(x, z)

SpecChunk == ChunkStart /\ [][ChunkNext]_vars

(***************************************************************************)
(* The threads of run from start to return                                 *)
(***************************************************************************)
RuntimeStart == PipelineInit({ValidPlayer})

RuntimeNext ==
    \/ RequestShutdown
    \/ MainLeaveLoop
    \/ MainStopMic
    \/ MainClose
    \/ MainJoinAndReturn
    \/ RecAccept
    \/ RecLeaveLoop
    \/ RecSend
    \/ RecWake
    \/ RtEwTake
    \/ RtEwHandled
    \/ RtEwLeaveLoop
    \/ RtPwCheck
    \/ RtPwPoll

SpecRuntime == RuntimeStart /\ [][RuntimeNext]_vars

\* the threads under a fair scheduler, every operation of a worker returning:
\* a step a thread can take is taken
EventWorkerStep == RtEwTake \/ RtEwHandled \/ RtEwLeaveLoop
PresenceWatcherStep == RtPwCheck \/ RtPwPoll
RecognizerStep == RecAccept \/ RecLeaveLoop \/ RecSend \/ RecWake
MainStep == MainLeaveLoop \/ MainStopMic \/ MainClose \/ MainJoinAndReturn

SpecRuntimeFair ==
    /\ RuntimeStart /\ [][RuntimeNext]_vars
    /\ WF_vars(EventWorkerStep)
    /\ WF_vars(PresenceWatcherStep)
    /\ WF_vars(RecognizerStep)
    /\ WF_vars(MainStep)

(***************************************************************************)
(* Applications of BlockCatalog::match_blocks                              *)
(***************************************************************************)
MatchBlocksCall(text, threshold) ==
    /\ fn_call.fn = "none"
    /\ fn_call' = [fn |-> "match_blocks", text |-> text, threshold |-> threshold,
                   done |-> TRUE]
    /\ fn_ret' = match_blocks(text, threshold)
    /\ UNCHANGED non_fn_vars

\* the texts of at most n characters over the letters of the aliases, a
\* capital, a space and a full stop
RECURSIVE MatchTexts(_)
MatchTexts(n) ==
    IF n = 0 THEN {<<>>}
    ELSE LET shorter == MatchTexts(n - 1)
         IN shorter \cup {Append(t, ch) : t \in shorter,
                                          ch \in {"d", "ye", "D", " ", "."}}

\* fuzzy_threshold, in percent
MatchThresholds == {0, 80}

MatchStart == PipelineInit({ValidPlayer})

MatchNext ==
    \E text \in MatchTexts(MaxTextChars), threshold \in MatchThresholds :
        MatchBlocksCall(text, threshold)

SpecMatch == MatchStart /\ [][MatchNext]_vars

(***************************************************************************)
(* BlockCatalog::load: the identifiers that enter alias_to_blocks          *)
(***************************************************************************)
BLOCK_KEY_PREFIX ==
    <<"b", "l", "o", "c", "k", ".", "m", "i", "n", "e", "c", "r", "a", "f", "t", ".">>

\* block_id_from_language_key: the identifiers it yields (none or one)
block_id_from_language_key(key) ==
    LET path == SubSeq(key, Len(BLOCK_KEY_PREFIX) + 1, Len(key))
    IN IF ~starts_with(key, BLOCK_KEY_PREFIX) THEN {}
       ELSE IF path = <<>> \/ contains(path, <<".">>) THEN {}
       ELSE IF ~\A i \in 1..Len(path) :
                   path[i] \in AsciiLower \cup AsciiDigit \cup {"_", "/", "-"}
       THEN {}
       ELSE {MinecraftPrefix \o path}

\* str::trim on characters
RECURSIVE str_trim(_)
str_trim(text) ==
    IF text = <<>> THEN <<>>
    ELSE IF is_whitespace(Head(text)) THEN str_trim(Tail(text))
    ELSE IF is_whitespace(text[Len(text)])
    THEN str_trim(SubSeq(text, 1, Len(text) - 1))
    ELSE text

\* `contains('*') || contains('?') || contains('[')`
has_glob(target) ==
    contains(target, <<"*">>) \/ contains(target, <<"?">>) \/ contains(target, <<"[">>)

\* normalize_block_target
normalize_block_target(raw_target) ==
    LET target == str_trim(raw_target)
        from_key == block_id_from_language_key(target)
    IN IF starts_with(target, BLOCK_KEY_PREFIX)
       THEN IF from_key = {} THEN target ELSE CHOOSE id \in from_key : TRUE
       ELSE IF ~contains(target, <<":">>) /\ ~has_glob(target)
       THEN MinecraftPrefix \o target
       ELSE target

\* known_block_ids of a name table with dirt and stone
known_block_ids == {BlockDirt, BlockStone}

\* an application of a step of load has put ids under an alias
Inserted(step, raw, ids) ==
    /\ fn_call.fn = "none"
    /\ fn_call' = [fn |-> "load", step |-> step, raw |-> raw, done |-> TRUE]
    /\ fn_ret' = ids
    /\ UNCHANGED non_fn_vars

\* load, the loop over the name table: a key with a localized name
LoadNameKey(key) == Inserted("names", key, block_id_from_language_key(key))

\* load, the loop over extra_aliases: an identifier with an alias
LoadExtraAlias(block_id) ==
    Inserted("extra_aliases", block_id, {normalize_block_target(block_id)})

\* load, the loop over shared_aliases: one target of an alias; a glob target
\* brings the known identifiers its pattern matches, or is skipped when it
\* is no pattern
LoadSharedTarget(target) ==
    IF has_glob(normalize_block_target(target))
    THEN \E matched \in SUBSET known_block_ids :
            Inserted("shared_aliases", target, matched)
    ELSE Inserted("shared_aliases", target, {normalize_block_target(target)})

\* keys and targets: a prefix or none, then at most n characters
RECURSIVE TargetTails(_)
TargetTails(n) ==
    IF n = 0 THEN {<<>>}
    ELSE TargetTails(n - 1) \cup
         {Append(t, c) : t \in {u \in TargetTails(n - 1) : Len(u) = n - 1},
                         c \in {"d", "D", "_", ":", "*", "."}}
CatalogTargets(n) ==
    {prefix \o tail : prefix \in {<<>>, MinecraftPrefix, BLOCK_KEY_PREFIX},
                      tail \in TargetTails(n)}

CatalogStart == PipelineInit({ValidPlayer})

\* clean_alias_map keeps no empty key and no empty value
CatalogNext ==
    \/ \E key \in CatalogTargets(MaxTargetChars) : LoadNameKey(key)
    \/ \E block_id \in CatalogTargets(MaxTargetChars) \ {<<>>} :
          LoadExtraAlias(block_id)
    \/ \E target \in CatalogTargets(MaxTargetChars) \ {<<>>} :
          LoadSharedTarget(target)

SpecCatalog == CatalogStart /\ [][CatalogNext]_vars

(***************************************************************************)
(* MinecraftRconClient: send_packet, read_packet                           *)
(***************************************************************************)
I32_MAX == 2147483647
I32_MIN == -2147483647 - 1

\* i32::to_le_bytes (\div rounds toward minus infinity: two's complement)
to_le_bytes(v) ==
    <<v % 256, (v \div 256) % 256, (v \div 65536) % 256, (v \div 16777216) % 256>>

\* i32::from_le_bytes
from_le_bytes(b) ==
    b[1] + 256 * b[2] + 65536 * b[3]
      + 16777216 * (IF b[4] >= 128 THEN b[4] - 256 ELSE b[4])

\* the UTF-8 bytes of a character
CharBytes(ch) ==
    CASE ch = "ya" -> <<209, 143>>
      [] ch = "YA" -> <<208, 175>>
      [] ch = " " -> <<32>>
      [] ch = "a" -> <<97>>
      [] ch = "l" -> <<108>>
      [] OTHER -> <<63>>

\* str::as_bytes
RECURSIVE as_bytes(_)
as_bytes(body) ==
    IF body = <<>> THEN <<>>
    ELSE IF Len(body) = 1 THEN CharBytes(body[1])
    ELSE as_bytes(SubSeq(body, 1, Len(body) \div 2))
           \o as_bytes(SubSeq(body, Len(body) \div 2 + 1, Len(body)))

IsContinuation(bytes, i) == i <= Len(bytes) /\ bytes[i] \in 128..191

\* the bytes at the head of bytes that from_utf8_lossy takes as one chunk: a
\* well-formed sequence (valid), or the longest prefix of one (replaced)
Utf8Chunk(bytes) ==
    LET b == bytes[1]
        second(lo, hi) == 2 <= Len(bytes) /\ bytes[2] \in lo..hi
    IN IF b < 128 THEN [width |-> 1, valid |-> TRUE]
       ELSE IF b \in 194..223
       THEN IF IsContinuation(bytes, 2) THEN [width |-> 2, valid |-> TRUE]
            ELSE [width |-> 1, valid |-> FALSE]
       ELSE IF b \in 224..239
       THEN IF ~second(IF b = 224 THEN 160 ELSE 128, IF b = 237 THEN 159 ELSE 191)
            THEN [width |-> 1, valid |-> FALSE]
            ELSE IF IsContinuation(bytes, 3) THEN [width |-> 3, valid |-> TRUE]
            ELSE [width |-> 2, valid |-> FALSE]
       ELSE IF b \in 240..244
       THEN IF ~second(IF b = 240 THEN 144 ELSE 128, IF b = 244 THEN 143 ELSE 191)
            THEN [width |-> 1, valid |-> FALSE]
            ELSE IF ~IsContinuation(bytes, 3) THEN [width |-> 2, valid |-> FALSE]
            ELSE IF IsContinuation(bytes, 4) THEN [width |-> 4, valid |-> TRUE]
            ELSE [width |-> 3, valid |-> FALSE]
       ELSE [width |-> 1, valid |-> FALSE]

\* where a chunk surely begins in the four bytes after position middle: the
\* bytes that continue no sequence
ChunkStarts(bytes, middle) ==
    {i \in (middle + 1)..Min(Len(bytes), middle + 4) : bytes[i] \notin 128..191}

\* String::from_utf8_lossy(..).to_string(), as the bytes of the String: every
\* chunk that is not valid becomes U+FFFD.  Long input is decoded in two parts
\* cut where a chunk begins.
RECURSIVE from_utf8_lossy(_)
from_utf8_lossy(bytes) ==
    IF bytes = <<>> THEN <<>>
    ELSE IF Len(bytes) > 8 /\ ChunkStarts(bytes, Len(bytes) \div 2) # {}
    THEN LET starts == ChunkStarts(bytes, Len(bytes) \div 2)
             cut == CHOOSE i \in starts : \A j \in starts : i <= j
         IN from_utf8_lossy(SubSeq(bytes, 1, cut - 1))
              \o from_utf8_lossy(SubSeq(bytes, cut, Len(bytes)))
    ELSE LET chunk == Utf8Chunk(bytes)
         IN (IF chunk.valid THEN SubSeq(bytes, 1, chunk.width)
             ELSE <<239, 191, 189>>)
              \o from_utf8_lossy(SubSeq(bytes, chunk.width + 1, Len(bytes)))

\* `let length = 4 + 4 + body_bytes.len() + 2`
PacketLengthUnpadded(body_len) == 4 + 4 + body_len
PacketLength(body_len) == 4 + 4 + body_len + 2

\* the bytes send_packet hands to write_all
PacketBytes(id, kind, body) ==
    to_le_bytes(PacketLength(ByteLen(body))) \o to_le_bytes(id)
      \o to_le_bytes(kind) \o as_bytes(body) \o <<0, 0>>

\* `self.next_id.checked_add(1).unwrap_or(1)`
NextIdAfter(id) == IF id = I32_MAX THEN 1 ELSE id + 1

\* send_packet on a client whose next_id is next and which has sent the
\* packets ids: `let id: i32 = 0`, next_id moves on, the packet is written;
\* the packet read before is gone by then
Sent(next, ids, kind, body) ==
    \E id \in {0} :
       /\ packet' = [ok |-> FALSE, err |-> "none"]
       /\ next_id' = NextIdAfter(next)
       /\ stream' = PacketBytes(id, kind, body)
       /\ sent_ids' = Append(ids, id)
       /\ fn_call' = [fn |-> "send_packet", kind |-> kind, body |-> body,
                      id |-> id, done |-> TRUE]

send_packet(kind, body, limit) ==
    /\ stream = <<>>
    /\ Len(sent_ids) < limit
    /\ Sent(next_id, sent_ids, kind, body)
    /\ UNCHANGED <<fn_ret, pipeline_vars, rcon_vars, runtime_vars,
                   presence_vars, tui_vars>>

\* read_packet of the bytes that are in the stream
PacketRead(bytes) ==
    LET length == from_le_bytes(SubSeq(bytes, 1, 4))
        rest == SubSeq(bytes, 5, 4 + length)
    IN IF Len(bytes) < 4 THEN [ok |-> FALSE, err |-> "RCON read length error"]
       ELSE IF ~(length \in 10..(1024 * 1024))
       THEN [ok |-> FALSE, err |-> "RCON invalid packet length"]
       ELSE IF Len(bytes) < 4 + length
       THEN [ok |-> FALSE, err |-> "RCON read packet error"]
       ELSE [ok |-> TRUE, err |-> "none",
             id |-> from_le_bytes(SubSeq(rest, 1, 4)),
             kind |-> from_le_bytes(SubSeq(rest, 5, 8)),
             body |-> from_utf8_lossy(SubSeq(rest, 9, Len(rest) - 2))]

read_packet ==
    /\ stream # <<>>
    /\ packet' = PacketRead(stream)
    /\ stream' = IF Len(stream) >= 4 /\ PacketRead(stream).ok
                 THEN SubSeq(stream, 5 + from_le_bytes(SubSeq(stream, 1, 4)),
                             Len(stream))
                 ELSE <<>>
    /\ UNCHANGED <<next_id, sent_ids, fn_vars, pipeline_vars, rcon_vars,
                   runtime_vars, presence_vars, tui_vars>>

\* cmd up to send_packet: a command over 1413 bytes is refused
cmd(command, limit) ==
    IF ByteLen(command) > MaxCommandBytes
    THEN /\ fn_call.fn # "cmd"
         /\ fn_call' = [fn |-> "cmd", kind |-> 2, body |-> <<>>, id |-> 0,
                        done |-> TRUE]
         /\ UNCHANGED <<fn_ret, client_vars, pipeline_vars, rcon_vars,
                        runtime_vars, presence_vars, tui_vars>>
    ELSE send_packet(2, command, limit)

\* connect up to send_packet: `Self { stream, next_id: 1 }` of a new
\* connection, then send_packet(3, password)
connect(password) ==
    /\ sent_ids # <<>>
    /\ stream = <<>>
    /\ Sent(1, <<>>, 3, password)
    /\ UNCHANGED <<fn_ret, pipeline_vars, rcon_vars, runtime_vars, presence_vars, tui_vars>>

\* a sequence of n copies of ch
Repeated(ch, n) == [i \in 1..n |-> ch]

\* bodies of at most two characters, the longest command cmd accepts, and
\* the shortest it refuses
FramingBodies ==
    LET alphabet == {"a", " ", "ya", "YA"}
    IN {<<>>} \cup {<<c>> : c \in alphabet}
         \cup {<<c, e>> : c \in alphabet, e \in alphabet}
         \cup {Repeated("a", MaxCommandBytes - 2) \o <<"ya">>,
               Repeated("a", MaxCommandBytes - 1) \o <<"ya">>}

PacketKinds == {0, 2, 3, -1, I32_MAX, I32_MIN}

FramingStart == PipelineInit({ValidPlayer})

FramingNext ==
    \/ \E kind \in PacketKinds, body \in FramingBodies :
          Len(body) <= 2 /\ send_packet(kind, body, MaxPackets)
    \/ \E command \in FramingBodies : cmd(command, MaxPackets)
    \/ read_packet
    \/ \E password \in FramingBodies : Len(password) <= 1 /\ connect(password)

SpecFraming == FramingStart /\ [][FramingNext]_vars

(***************************************************************************)
(* MinecraftRconClient against a server: connect, cmd, has_pending_data    *)
(***************************************************************************)
\* what a step of the client or of its server leaves alone
non_client_vars == <<pipeline_vars, runtime_vars, presence_vars, rcon_lock,
                     rt_endpoint, ui_rcon_ok, th, ui_pc, tui_vars>>

\* no call of the client is under way
NoCall == [fn |-> "none", done |-> TRUE]

\* the frame of a call of connect or cmd: auth_id and result are its locals;
\* got: the packets read_packet has returned to it, served: the packets the
\* server has written since the call began
Frame(fn, pc) ==
    [fn |-> fn, pc |-> pc, auth_id |-> 0, result |-> <<>>, got |-> <<>>,
     served |-> 0, done |-> FALSE]

\* the loop of connect on a packet read: `if packet.kind == 2 { if packet.id
\* == -1 { return Err(..) } if packet.id != auth_id { continue } break }`
AuthOutcomeAnyId(pkt, auth_id) ==
    IF pkt.kind = 2
    THEN IF pkt.id = -1 THEN "failed" ELSE "ready"
    ELSE "skipped"
AuthOutcome(pkt, auth_id) ==
    IF pkt.kind = 2
    THEN IF pkt.id = -1 THEN "failed"
         ELSE IF pkt.id # auth_id THEN "ignored"
         ELSE "ready"
    ELSE "skipped"

\* `if packet.kind == 0 || packet.kind == 2 { result.push_str(&packet.body) }`
PushedAnyKind(result, pkt) == result \o pkt.body
Pushed(result, pkt) ==
    IF pkt.kind = 0 \/ pkt.kind = 2 THEN result \o pkt.body ELSE result

\* char::is_whitespace on the one-byte characters
IsWhitespace(b) == b \in {9, 10, 11, 12, 13, 32}

\* str::trim, on the bytes of a String of the alphabet (its only white space
\* is one byte long)
trim(bytes) ==
    LET kept == {i \in 1..Len(bytes) : ~IsWhitespace(bytes[i])}
    IN IF kept = {} THEN <<>>
       ELSE SubSeq(bytes, CHOOSE i \in kept : \A j \in kept : i <= j,
                   CHOOSE i \in kept : \A j \in kept : j <= i)

\* the stream after read_packet took the packet at its head, or failed
StreamAfterRead(bytes) ==
    IF Len(bytes) >= 4 /\ PacketRead(bytes).ok
    THEN SubSeq(bytes, 5 + from_le_bytes(SubSeq(bytes, 1, 4)), Len(bytes))
    ELSE <<>>

\* Err(e) leaves connect or cmd
Failing(frame, e) ==
    /\ fn_call' = [frame EXCEPT !.pc = "ret", !.done = TRUE]
    /\ fn_ret' = <<"Err", e>>

\* connect: the socket is opened, `Self { stream, next_id: 1 }`,
\* send_packet(3, password); an error of any of these leaves connect
ClConnect(password) ==
    /\ fn_call = NoCall
    /\ rcon_conn = "Disconnected"
    /\ \E outcome \in {"auth_sent", "io_error"} :
         IF outcome = "auth_sent"
         THEN /\ rcon_conn' = "Authenticating"
              /\ client_endpoint' = rt_endpoint
              /\ next_id' = NextIdAfter(1)
              /\ sent_ids' = <<0>>
              /\ fn_call' = Frame("connect", "read")
              /\ fn_ret' = <<>>
         ELSE /\ Failing(Frame("connect", "read"), "RCON connect error")
              /\ UNCHANGED <<rcon_conn, client_endpoint, next_id, sent_ids>>
    /\ stream' = <<>>
    /\ packet' = [ok |-> FALSE, err |-> "none"]
    /\ UNCHANGED non_client_vars

\* connect, one turn of its loop: read_packet returns
ClAuthRead ==
    /\ fn_call.fn = "connect" /\ fn_call.pc = "read"
    /\ stream # <<>>
    /\ packet' = PacketRead(stream)
    /\ stream' = StreamAfterRead(stream)
    /\ \E frame \in {[fn_call EXCEPT !.got = Append(@, packet')]} :
         IF ~packet'.ok
         THEN Failing(frame, packet'.err) /\ UNCHANGED <<rcon_conn, client_endpoint>>
         ELSE \E outcome \in {AuthOutcome(packet', fn_call.auth_id)} :
                CASE outcome = "failed" ->
                        /\ Failing(frame, "RCON authentication failed")
                        /\ UNCHANGED <<rcon_conn, client_endpoint>>
                  [] outcome = "ready" ->
                        /\ fn_call' = [frame EXCEPT !.pc = "ret", !.done = TRUE]
                        /\ fn_ret' = <<"Ok", <<>>>>
                        /\ rcon_conn' = "Ready"
                        /\ UNCHANGED client_endpoint
                  [] OTHER ->
                        /\ fn_call' = frame
                        /\ UNCHANGED <<fn_ret, rcon_conn, client_endpoint>>
    /\ UNCHANGED <<next_id, sent_ids, non_client_vars>>

\* read_packet found nothing within the read timeout of 3 s, or the server
\* closed the socket
ClReadTimeout ==
    /\ fn_call.fn \in {"connect", "cmd"} /\ fn_call.pc = "read"
    /\ stream = <<>>
    /\ Failing(fn_call, "RCON read length error")
    /\ packet' = [ok |-> FALSE, err |-> "RCON read length error"]
    /\ UNCHANGED <<rcon_conn, client_endpoint, next_id, stream, sent_ids, non_client_vars>>

\* cmd up to its loop: the length test, send_packet(2, cmd), the sleep
ClCmd(command, limit) ==
    /\ fn_call = NoCall
    /\ rcon_conn = "Ready"
    /\ Len(sent_ids) < limit
    /\ IF ByteLen(command) > MaxCommandBytes
       THEN /\ Failing(Frame("cmd", "read"), "RCON command too long")
            /\ UNCHANGED <<next_id, sent_ids>>
       ELSE \E outcome \in {"written", "io_error"} :
              /\ next_id' = NextIdAfter(next_id)
              /\ IF outcome = "written"
                 THEN /\ sent_ids' = Append(sent_ids, 0)
                      /\ fn_call' = Frame("cmd", "read")
                      /\ fn_ret' = <<>>
                 ELSE /\ Failing(Frame("cmd", "read"), "RCON write error")
                      /\ UNCHANGED sent_ids
    /\ packet' = [ok |-> FALSE, err |-> "none"]
    /\ UNCHANGED <<rcon_conn, client_endpoint, stream, non_client_vars>>

\* cmd, the first half of a turn of its loop: read_packet returns and the
\* body of a packet of kind 0 or 2 is pushed to result
ClCmdRead ==
    /\ fn_call.fn = "cmd" /\ fn_call.pc = "read"
    /\ stream # <<>>
    /\ packet' = PacketRead(stream)
    /\ stream' = StreamAfterRead(stream)
    /\ \E frame \in {[fn_call EXCEPT !.got = Append(@, packet')]} :
         IF ~packet'.ok
         THEN Failing(frame, packet'.err)
         ELSE /\ fn_call' = [frame EXCEPT !.pc = "peek",
                                          !.result = Pushed(@, packet')]
              /\ UNCHANGED fn_ret
    /\ UNCHANGED <<rcon_conn, client_endpoint, next_id, sent_ids, non_client_vars>>

\* cmd, the second half: has_pending_data peeks one byte without blocking;
\* nothing buffered (Ok(0) or WouldBlock) returns the trimmed result
ClPeek ==
    /\ fn_call.fn = "cmd" /\ fn_call.pc = "peek"
    /\ \E outcome \in {"peeked", "io_error"} :
         IF outcome = "io_error"
         THEN Failing(fn_call, "RCON peek error")
         ELSE IF stream # <<>>
         THEN fn_call' = [fn_call EXCEPT !.pc = "read"] /\ UNCHANGED fn_ret
         ELSE /\ fn_call' = [fn_call EXCEPT !.pc = "ret", !.done = TRUE]
              /\ fn_ret' = <<"Ok", trim(fn_call.result)>>
    /\ UNCHANGED <<rcon_conn, client_endpoint, client_vars, non_client_vars>>

\* the caller has the result and the locals of the call are gone:
\* run_command keeps the client after Ok and drops it (closing the socket)
\* after Err
ClReturn ==
    /\ fn_call.fn \in {"connect", "cmd"} /\ fn_call.pc = "ret"
    /\ fn_call' = NoCall
    /\ fn_ret' = <<>>
    /\ packet' = [ok |-> FALSE, err |-> "none"]
    /\ IF fn_ret[1] = "Err"
       THEN /\ rcon_conn' = ClientAfterError(rcon_conn)
            /\ client_endpoint' = EndpointOf(rcon_conn', client_endpoint)
            /\ stream' = <<>>
       ELSE UNCHANGED <<rcon_conn, client_endpoint, stream>>
    /\ UNCHANGED <<next_id, sent_ids, non_client_vars>>

\* the server writes a packet, or bytes that are none, while a call waits
ServerWrites(bytes, limit) ==
    /\ fn_call.fn \in {"connect", "cmd"} /\ fn_call.pc # "ret"
    /\ fn_call.served < limit
    /\ stream' = stream \o bytes
    /\ fn_call' = [fn_call EXCEPT !.served = @ + 1]
    /\ UNCHANGED <<fn_ret, rcon_conn, client_endpoint, next_id, sent_ids, packet, non_client_vars>>

\* what the server answers to the auth packet, and what else may arrive
AuthReplies ==
    {PacketBytes(id, 2, <<>>) : id \in {0, -1, 7}} \cup {PacketBytes(0, 0, <<>>)}

\* what the server answers to a command: payload packets, other packets, and
\* a length field no packet may have
CmdReplies ==
    {PacketBytes(0, 0, <<"ya">>), PacketBytes(0, 2, <<" ">>),
     PacketBytes(0, 3, <<"a">>), to_le_bytes(9)}

ClientStart == PipelineInit({ValidPlayer})

ClientNext ==
    \/ \E password \in {<<"a">>} : ClConnect(password)
    \/ ClAuthRead
    \/ ClReadTimeout
    \/ \E command \in {<<"l">>, Repeated("a", MaxCommandBytes - 1) \o <<"ya">>} :
          ClCmd(command, MaxPackets)
    \/ ClCmdRead
    \/ ClPeek
    \/ ClReturn
    \/ \E bytes \in AuthReplies :
          fn_call.fn = "connect" /\ ServerWrites(bytes, MaxReplies)
    \/ \E bytes \in CmdReplies :
          fn_call.fn = "cmd" /\ ServerWrites(bytes, MaxReplies)

SpecClient == ClientStart /\ [][ClientNext]_vars

(***************************************************************************)
(* Presence watcher: BlockDeleteController::spawn_presence_watcher         *)
(***************************************************************************)
\* what a step of the presence watcher leaves alone
non_presence_vars == <<now, player_name, partial_progress, repeat_gate,
                       last_trigger, cached_chunk, ew_pc, ew_candidates,
                       ew_passed, ew_block_ids, ew_ctx, ew_lookups, ew_checks,
                       ew_logs, gate_run, partial_run, trigger_hist,
                       rcon_lock, rcon_conn, client_endpoint, rt_endpoint, ui_rcon_ok, ui_pc,
                       fn_vars, shutdown, pcm_open, text_chan, rec_pc, rt_ew,
                       main_pc, client_vars, tui_vars>>

\* `if !was_online`
WelcomeDueAlways(was_online) == TRUE
WelcomeDue(was_online) == ~was_online

\* rcon.get_player_chunk_context(&player_name) is called
PwPoll ==
    /\ rt_pw = "poll"
    /\ OpStart("presence_watcher", "get_player_chunk_context", player_name,
               NoContext, 0)

\* the match on the result of the poll, up to the call of
\* send_private_message or to thread::sleep
PwOnPoll ==
    /\ rt_pw = "poll"
    /\ th["presence_watcher"].pc = "ret"
    /\ th' = [th EXCEPT !["presence_watcher"] = IdleThread]
    /\ \E res \in {th["presence_watcher"].res} :
         CASE res = "Ok" ->
                 /\ ui_player_online' = TRUE
                 /\ IF WelcomeDue(pw_was_online)
                    THEN /\ pw_was_online' = TRUE
                         /\ pw_hist' = [welcomed |-> TRUE, prev_ok |-> TRUE,
                                        lookup_failed |-> FALSE,
                                        send_failed |-> FALSE,
                                        logs |-> <<"[player] joined">>]
                         /\ rt_pw' = "welcome"
                    ELSE /\ pw_hist' = [pw_hist EXCEPT !.prev_ok = TRUE,
                                                       !.logs = <<>>]
                         /\ rt_pw' = "sleep"
                         /\ UNCHANGED pw_was_online
           [] res = "PlayerLookupError" ->
                 /\ pw_hist' = [pw_hist EXCEPT
                                  !.prev_ok = FALSE, !.lookup_failed = TRUE,
                                  !.send_failed = FALSE,
                                  !.logs = IF pw_was_online
                                           THEN <<"[player] left">> ELSE <<>>]
                 /\ pw_was_online' = FALSE
                 /\ ui_player_online' = FALSE
                 /\ rt_pw' = "sleep"
           [] OTHER ->
                 /\ ui_player_online' = FALSE
                 /\ pw_hist' = [pw_hist EXCEPT !.prev_ok = FALSE, !.logs = <<>>]
                 /\ rt_pw' = "sleep"
                 /\ UNCHANGED pw_was_online
    /\ UNCHANGED non_presence_vars

\* rcon.send_private_message(&player_name, "[BlockDelete] ..") is called
PwWelcome ==
    /\ rt_pw = "welcome"
    /\ OpStart("presence_watcher", "send_private_message", player_name,
               NoContext, NotifyMessageBytes)

\* the match on the result of send_private_message
PwOnWelcome ==
    /\ rt_pw = "welcome"
    /\ th["presence_watcher"].pc = "ret"
    /\ th' = [th EXCEPT !["presence_watcher"] = IdleThread]
    /\ pw_hist' = [pw_hist EXCEPT
                     !.send_failed = th["presence_watcher"].res # "Ok",
                     !.logs = Append(@, IF th["presence_watcher"].res = "Ok"
                                        THEN "[notify]" ELSE "[notify-error]")]
    /\ rt_pw' = "sleep"
    /\ UNCHANGED <<pw_was_online, ui_player_online, non_presence_vars, tui_vars>>

\* thread::sleep(Duration::from_secs(2)) is over
PwSleep ==
    /\ rt_pw = "sleep"
    /\ rt_pw' = "check"
    /\ UNCHANGED <<shutdown, pcm_open, text_chan, rec_pc, rt_ew, main_pc,
                   non_runtime_vars, rcon_vars>>

PresenceStart == PipelineInit({ValidPlayer, InvalidPlayer})

PresenceNext ==
    \/ RequestShutdown
    \/ RtPwCheck
    \/ PwPoll
    \/ RcLock("presence_watcher")
    \/ RcConnectOpen("presence_watcher")
    \/ RcConnectAuth("presence_watcher")
    \/ RcCmdSend("presence_watcher")
    \/ RcCmdRead("presence_watcher")
    \/ RcExhausted("presence_watcher")
    \/ PwOnPoll
    \/ PwWelcome
    \/ PwOnWelcome
    \/ PwSleep
    \/ \E endpoint \in Endpoints : UpdateEndpoint(endpoint)
    \/ UpdateEndpointUi

SpecPresence == PresenceStart /\ [][PresenceNext]_vars

(***************************************************************************)
(* The shutdown sequence of run against the presence watcher               *)
(***************************************************************************)
ShutdownStart == PipelineInit({ValidPlayer})

ShutdownNext ==
    \/ RequestShutdown
    \/ MainLeaveLoop
    \/ MainStopMic
    \/ MainClose
    \/ MainJoinAndReturn
    \/ RecLeaveLoop
    \/ RecSend
    \/ RtPwCheck
    \/ PwPoll
    \/ RcLock("presence_watcher")
    \/ RcConnectOpen("presence_watcher")
    \/ RcConnectAuth("presence_watcher")
    \/ RcCmdSend("presence_watcher")
    \/ RcCmdRead("presence_watcher")
    \/ RcExhausted("presence_watcher")
    \/ PwOnPoll
    \/ PwWelcome
    \/ PwOnWelcome
    \/ PwSleep

SpecShutdown == ShutdownStart /\ [][ShutdownNext]_vars

(***************************************************************************)
(* The key handling of run (terminal front-end)                            *)
(***************************************************************************)
\* what a key leaves alone, and what only a save or a return touches
tui_rest == <<pipeline_vars, fn_vars, presence_vars, client_vars, rcon_lock,
              th, ui_pc, text_chan, rec_pc, rt_ew, rt_pw>>
rcon_settings == <<rcon_conn, client_endpoint, rt_endpoint, ui_rcon_ok>>
run_flow == <<shutdown, main_pc, pcm_open>>

\* FooterButton::next (prev is next), SettingsTab::next (prev is next)
FooterButtonNext(button) == IF button = "Settings" THEN "Exit" ELSE "Settings"
SettingsTabNext(tab) == IF tab = "Connection" THEN "App" ELSE "Connection"

\* the match on settings_draft.ui_mode of the Left, Right and Enter arms
UiModeToggled(mode) == IF mode = "Tui" THEN "Qt" ELSE "Tui"

settings_fields_for_tab(tab) ==
    IF tab = "Connection" THEN <<"Host", "Port", "Password">>
    ELSE <<"PlayerName", "UiMode">>

\* fields.iter().position(|f| *f == current).unwrap_or(0)
FieldPosition(fields, current) ==
    IF \E i \in 1..Len(fields) : fields[i] = current
    THEN (CHOOSE i \in 1..Len(fields) : fields[i] = current) - 1
    ELSE 0

settings_field_next_in_tab(current, tab) ==
    LET fields == settings_fields_for_tab(tab)
    IN fields[((FieldPosition(fields, current) + 1) % Len(fields)) + 1]

settings_field_prev_in_tab(current, tab) ==
    LET fields == settings_fields_for_tab(tab)
    IN fields[((FieldPosition(fields, current) + Len(fields) - 1) % Len(fields)) + 1]

default_field_for_tab(tab) == settings_fields_for_tab(tab)[1]

\* str::parse::<u16>: an optional '+', then decimal digits up to 65535
RECURSIVE DigitsValue(_)
DigitsValue(digits) ==
    IF digits = <<>> THEN 0
    ELSE 10 * DigitsValue(SubSeq(digits, 1, Len(digits) - 1))
         + (CHOOSE d \in 0..9 : u16_to_string(d) = <<digits[Len(digits)]>>)

parse_u16(text) ==
    LET digits == IF text # <<>> /\ Head(text) = "+" THEN Tail(text) ELSE text
    IN IF digits = <<>> \/ \E i \in 1..Len(digits) : digits[i] \notin AsciiDigit
       THEN [ok |-> FALSE]
       ELSE IF DigitsValue(digits) > 65535 THEN [ok |-> FALSE]
       ELSE [ok |-> TRUE, value |-> DigitsValue(digits)]

\* char::is_control, on the characters a key can carry here
is_control(c) == c \in {"\t"}

\* the entries ui_log is given by the key handling
SettingsError(what) ==
    [tag |-> "[settings-error]", what |-> what, host |-> <<>>, port |-> 0,
     user |-> <<>>, mode |-> ""]
SettingsSaved(host, port, user, mode) ==
    [tag |-> "[settings]", what |-> "saved", host |-> host, port |-> port,
     user |-> user, mode |-> mode]
SettingsRestart ==
    [tag |-> "[settings]", what |-> "restart", host |-> <<>>, port |-> 0,
     user |-> <<>>, mode |-> ""]

LOG_CAPACITY == 256

\* ui_log: a message equal to the last entry is counted on that entry
ui_log(logs, msg) ==
    IF logs # <<>> /\ logs[Len(logs)].text = msg
    THEN [logs EXCEPT ![Len(logs)].count = @ + 1]
    ELSE Append(IF Len(logs) >= LOG_CAPACITY THEN Tail(logs) ELSE logs,
                [text |-> msg, count |-> 1])

RECURSIVE Logged(_)
Logged(logs) == IF logs = <<>> THEN 0 ELSE logs[1].count + Logged(Tail(logs))

\* save_settings_bundle up to the writes of the configuration file
BundleError(host, rcon_password, name, io_ok) ==
    IF str_trim(host) = <<>> THEN "host"
    ELSE IF str_trim(rcon_password) = <<>> THEN "password"
    ELSE IF str_trim(name) = <<>> THEN "player_name"
    ELSE IF ~io_ok THEN "config"
    ELSE "none"

\* restart_required of save_settings_bundle
RestartRequired(rcon_password, name, mode) ==
    \/ str_trim(player_name) # str_trim(name)
    \/ ConfigUiMode # mode
    \/ str_trim(ConfigPassword) # str_trim(rcon_password)

\* event::read() returns a key while run is in its loop
KeyRead ==
    /\ main_pc = "running"
    /\ ~shutdown

\* KeyCode::Char('q') | KeyCode::Char('Q')
KeyQuit(c) ==
    /\ c \in {"q", "Q"}
    /\ KeyRead
    /\ shutdown' = TRUE
    /\ UNCHANGED <<controls, settings_draft, restart_after_tui_exit, ui_settings,
                   ui_logs, main_pc, pcm_open, rcon_settings, tui_rest>>

\* KeyCode::Left and KeyCode::Right (prev and next are the same functions)
KeyLeftRight(code) ==
    /\ code \in {"Left", "Right"}
    /\ KeyRead
    /\ IF controls.settings_open /\ ~controls.settings_editing
       THEN IF controls.settings_field = "UiMode"
            THEN /\ settings_draft' =
                       [settings_draft EXCEPT !.ui_mode = UiModeToggled(@)]
                 /\ UNCHANGED controls
            ELSE /\ controls' =
                       [controls EXCEPT
                          !.settings_tab = SettingsTabNext(@),
                          !.settings_field =
                              default_field_for_tab(SettingsTabNext(controls.settings_tab))]
                 /\ UNCHANGED settings_draft
       ELSE IF ~controls.settings_open
            THEN /\ controls' = [controls EXCEPT !.selected = FooterButtonNext(@)]
                 /\ UNCHANGED settings_draft
            ELSE UNCHANGED <<controls, settings_draft>>
    /\ UNCHANGED <<restart_after_tui_exit, ui_settings, ui_logs, run_flow,
                   rcon_settings, tui_rest>>

\* KeyCode::Up and KeyCode::Down
KeyUpDown(code) ==
    /\ code \in {"Up", "Down"}
    /\ KeyRead
    /\ IF controls.settings_open /\ ~controls.settings_editing
       THEN controls' =
              [controls EXCEPT !.settings_field =
                  IF code = "Up"
                  THEN settings_field_prev_in_tab(@, controls.settings_tab)
                  ELSE settings_field_next_in_tab(@, controls.settings_tab)]
       ELSE UNCHANGED controls
    /\ UNCHANGED <<settings_draft, restart_after_tui_exit, ui_settings, ui_logs,
                   run_flow, rcon_settings, tui_rest>>

\* KeyCode::Esc
KeyEsc ==
    /\ KeyRead
    /\ controls' = IF controls.settings_editing
                   THEN [controls EXCEPT !.settings_editing = FALSE]
                   ELSE [controls EXCEPT !.settings_open = FALSE]
    /\ UNCHANGED <<settings_draft, restart_after_tui_exit, ui_settings, ui_logs,
                   run_flow, rcon_settings, tui_rest>>

\* KeyCode::Enter
KeyEnter ==
    /\ KeyRead
    /\ IF controls.settings_open
       THEN /\ IF controls.settings_field = "UiMode"
               THEN /\ settings_draft' =
                          [settings_draft EXCEPT !.ui_mode = UiModeToggled(@)]
                    /\ UNCHANGED controls
               ELSE /\ controls' =
                          [controls EXCEPT !.settings_editing = ~@]
                    /\ UNCHANGED settings_draft
            /\ UNCHANGED shutdown
       ELSE IF controls.selected = "Settings"
            THEN /\ settings_draft' =
                       [host |-> ui_settings.rcon_host,
                        port |-> u16_to_string(ui_settings.rcon_port),
                        password |-> ui_settings.rcon_password,
                        player_name |-> ui_settings.player_name,
                        ui_mode |-> ui_settings.ui_mode]
                 /\ controls' =
                       [controls EXCEPT !.settings_tab = "Connection",
                                        !.settings_field = "Host",
                                        !.settings_editing = FALSE,
                                        !.settings_open = TRUE]
                 /\ UNCHANGED shutdown
            ELSE /\ shutdown' = TRUE
                 /\ UNCHANGED <<controls, settings_draft>>
    /\ UNCHANGED <<restart_after_tui_exit, ui_settings, ui_logs, main_pc, pcm_open,
                   rcon_settings, tui_rest>>

\* the draft field a key edits
DraftField(field) ==
    CASE field = "Host" -> "host"
      [] field = "Port" -> "port"
      [] field = "Password" -> "password"
      [] field = "PlayerName" -> "player_name"

\* String::pop
Popped(text) == IF text = <<>> THEN <<>> ELSE SubSeq(text, 1, Len(text) - 1)

\* KeyCode::Backspace
KeyBackspace ==
    /\ KeyRead
    /\ IF controls.settings_open /\ controls.settings_editing
          /\ controls.settings_field # "UiMode"
       THEN settings_draft' =
              [settings_draft EXCEPT ![DraftField(controls.settings_field)] = Popped(@)]
       ELSE UNCHANGED settings_draft
    /\ UNCHANGED <<controls, restart_after_tui_exit, ui_settings, ui_logs, run_flow,
                   rcon_settings, tui_rest>>

\* the test each field of the KeyCode::Char(c) arm makes before its push
Accepts(field, c) ==
    CASE field = "Host" -> ~is_control(c)
      [] field = "Port" -> c \in AsciiDigit
      [] field = "Password" -> ~is_control(c)
      [] field = "PlayerName" ->
            c \in AsciiLower \cup AsciiUpper \cup AsciiDigit \cup {"_"}

\* KeyCode::Char(c), the arm after those of 'q' and 's'; the port draft grows
\* up to port_limit characters, the other drafts up to limit
KeyChar(c, limit, port_limit) ==
    /\ c \notin {"q", "Q", "s", "S"}
    /\ KeyRead
    /\ IF controls.settings_open /\ controls.settings_editing
       THEN IF controls.settings_field = "UiMode"
            THEN settings_draft' =
                   IF c \in {"t", "T", "q", "Q"}
                   THEN [settings_draft EXCEPT !.ui_mode = "Tui"]
                   ELSE settings_draft
            ELSE IF Accepts(controls.settings_field, c)
                 THEN /\ Len(settings_draft[DraftField(controls.settings_field)])
                            < (IF controls.settings_field = "Port"
                               THEN port_limit ELSE limit)
                      /\ settings_draft' =
                            [settings_draft EXCEPT
                               ![DraftField(controls.settings_field)] = Append(@, c)]
                 ELSE UNCHANGED settings_draft
       ELSE UNCHANGED settings_draft
    /\ UNCHANGED <<controls, restart_after_tui_exit, ui_settings, ui_logs, run_flow,
                   rcon_settings, tui_rest>>

\* KeyCode::Char('s') | KeyCode::Char('S'), with save_settings_bundle and the
\* update_endpoint it calls; io_ok: the writes of the configuration file
\* succeed; at most limit saves of a run write to the log. After the `?` on
\* the port run returns Err and its locals are dropped, pcm_tx and the
\* microphone with its clone of pcm_tx among them
KeySave(c, io_ok, limit) ==
    /\ c \in {"s", "S"}
    /\ KeyRead
    /\ IF controls.settings_open /\ ~controls.settings_editing
       THEN LET host == str_trim(settings_draft.host)
                port == parse_u16(str_trim(settings_draft.port))
                err == BundleError(host, settings_draft.password,
                                   settings_draft.player_name, io_ok)
                restart == RestartRequired(settings_draft.password,
                                           settings_draft.player_name,
                                           settings_draft.ui_mode)
                saved == SettingsSaved(host, port.value,
                                       str_trim(settings_draft.player_name),
                                       settings_draft.ui_mode)
            IN IF ~port.ok
               THEN /\ main_pc' = "failed"
                    /\ pcm_open' = FALSE
                    /\ UNCHANGED <<controls, restart_after_tui_exit, ui_settings,
                                   ui_logs, shutdown, rcon_settings>>
               ELSE IF err # "none"
               THEN /\ Logged(ui_logs) < limit
                    /\ ui_logs' = ui_log(ui_logs, SettingsError(err))
                    /\ UNCHANGED <<controls, restart_after_tui_exit, ui_settings,
                                   run_flow, rcon_settings>>
               ELSE /\ Logged(ui_logs) < limit
                    /\ LockFree
                    /\ ui_settings' =
                          [rcon_host |-> host, rcon_port |-> port.value,
                           rcon_password |-> str_trim(settings_draft.password),
                           player_name |-> str_trim(settings_draft.player_name),
                           ui_mode |-> settings_draft.ui_mode]
                    /\ rt_endpoint' = <<host, port.value>>
                    /\ rcon_conn' = ClientAfterUpdate(rcon_conn)
                    /\ client_endpoint' = EndpointOf(rcon_conn', client_endpoint)
                    /\ ui_rcon_ok' = FALSE
                    /\ ui_logs' = IF restart
                                  THEN ui_log(ui_log(ui_logs, saved), SettingsRestart)
                                  ELSE ui_log(ui_logs, saved)
                    /\ controls' = [controls EXCEPT !.settings_open = FALSE]
                    /\ restart_after_tui_exit' = (restart_after_tui_exit \/ restart)
                    /\ shutdown' = (shutdown \/ restart)
                    /\ UNCHANGED <<main_pc, pcm_open>>
       ELSE UNCHANGED <<controls, restart_after_tui_exit, ui_settings, ui_logs,
                        run_flow, rcon_settings>>
    /\ UNCHANGED <<settings_draft, tui_rest>>

\* the characters a key carries
KeyChars == {"q", "s", "5"}

\* a player name of one character
TuiPlayer == <<"S">>

TuiStart == PipelineInit({TuiPlayer})

TuiNext ==
    \/ \E c \in KeyChars : KeyQuit(c)
    \/ \E code \in {"Left", "Right"} : KeyLeftRight(code)
    \/ \E code \in {"Up", "Down"} : KeyUpDown(code)
    \/ KeyEsc
    \/ KeyEnter
    \/ KeyBackspace
    \/ \E c \in KeyChars : KeyChar(c, MaxDraftChars, MaxPortChars)
    \/ \E c \in KeyChars, io_ok \in BOOLEAN : KeySave(c, io_ok, MaxUiLogs)
    \/ MainLeaveLoop
    \/ MainStopMic
    \/ MainClose

SpecTui == TuiStart /\ [][TuiNext]_vars

(***************************************************************************)
(* Properties                                                              *)
(***************************************************************************)
AllButLast(words) == SubSeq(words, 1, Len(words) - 1)

\* C1: in a run of occurrences of one (speaker, candidate) key, each no more
\* than the repeat window after the previous one, occurrence k passes the
\* gate iff (k - 1) mod 8 = 0; of 16 occurrences exactly the 1st and the 9th.
C1_RepeatGate ==
    \A key \in DOMAIN gate_run :
        gate_run[key].passed_at = {k \in 1..gate_run[key].k : (k - 1) % 8 = 0}

C1_Witness ==
    \E key \in DOMAIN gate_run :
        gate_run[key].k = 16 /\ gate_run[key].passed_at = {1, 9}

\* C2: a trigger reaching the cooldown check after an executed deletion of the
\* same (player, identifier) calls deleteInChunk iff it comes at least
\* cooldown_seconds after that deletion was recorded; a first trigger calls it.
C2_Cooldown ==
    \A i \in 1..Len(ew_checks) :
        LET c == ew_checks[i]
        IN IF c.prev < 0 THEN c.called
           ELSE c.called <=> (c.at - c.prev >= cooldown_seconds)

C2_Witness ==
    \E i, j \in 1..Len(ew_checks) :
        /\ ew_checks[i].prev >= 0 /\ ew_checks[i].called
        /\ ew_checks[j].prev >= 0 /\ ~ew_checks[j].called

\* C3 as stated: in a run of partials each extending the previous one, every
\* committed word (every word but the last) has been emitted exactly once, in
\* order ("a", "a b", "a b c" yields [], ["a"], ["b"]).
C3_Original ==
    partial_run.active =>
        partial_run.emitted = AllButLast(split_whitespace(partial_run.prev))

\* C3 amended: in a run of partials each extending the previous one, the
\* candidates emitted so far are exactly the committed words of at least 2
\* bytes, each once and in order; a committed word of one byte is never emitted.
C3_CommittedWordsOnce ==
    partial_run.active =>
        partial_run.emitted =
            SelectSeq(AllButLast(split_whitespace(partial_run.prev)),
                      LAMBDA w : ByteLen(w) >= 2)

C3_Witness ==
    /\ partial_run.active
    /\ Len(partial_run.emitted) = 2
    /\ Len(ew_candidates) = 1
    /\ partial_run.before = 1

\* C4: when a partial does not extend the partial stored for the speaker, its
\* candidates are taken from word index 0 of the new text.
C4_RevisedRestarts ==
    partial_run.revised =>
        ew_candidates =
            SelectSeq(AllButLast(split_whitespace(
                          partial_progress[MIC_SPEAKER_ID].last_partial)),
                      LAMBDA w : ByteLen(w) >= 2)

C4_Witness ==
    /\ partial_run.revised
    /\ partial_run.before >= 1
    /\ ew_candidates # <<>>

\* a thread inside run_command, holding the runtime mutex
InRunCommand(t) == th[t].pc \in {"loop", "auth", "sent"}

\* steps in which run_command returns to its operation
ReturnsOk(t) == th[t].pc = "sent" /\ th'[t].pc \in {"call", "ret"}
ReturnsErr(t) == th[t].pc = "loop" /\ th'[t].pc \in {"call", "ret"}

\* the send of the command over the connection held at entry has failed with
\* a transport error (a command within the ceiling fails in no other way)
HeldSendFailed(t) ==
    /\ InRunCommand(t)
    /\ th[t].held
    /\ th[t].command <= MaxCommandBytes
    /\ th[t].iter >= 1

\* C5: in every execution of run_command the command is sent at most twice
\* and at most two connection attempts are made.  When the send over the held
\* connection fails with a transport error the connection is discarded, one
\* reconnect and no more is made, the command is sent once more after it (and
\* only after it succeeded), and run_command returns Ok only after that second
\* send, Err only after that one reconnect.
C5_RetryPolicy ==
    /\ [](\A t \in Workers :
            /\ InRunCommand(t) => th[t].connects <= 2 /\ th[t].sends <= 2
            /\ HeldSendFailed(t) =>
                  /\ th[t].connects <= 1
                  /\ th[t].sends \in {1, 2}
                  /\ th[t].sends = 2 => th[t].connects = 1
                  /\ th[t].connects = 0 =>
                        rcon_conn = "Disconnected" /\ th[t].iter = 1
                  /\ th[t].iter = RetryAttempts => th[t].connects = 1)
    /\ [][\A t \in Workers :
            /\ HeldSendFailed(t) /\ ReturnsOk(t) =>
                  th[t].connects = 1 /\ th[t].sends = 2
            /\ HeldSendFailed(t) /\ ReturnsErr(t) =>
                  th[t].connects = 1 /\ th[t].iter = RetryAttempts]_vars

\* the command is on the wire a second time, after the one reconnect
C5_Witness ==
    \E t \in Workers :
        /\ HeldSendFailed(t)
        /\ th[t].pc = "sent"
        /\ th[t].connects = 1
        /\ th[t].sends = 2

\* C6: the connection is Disconnected, Authenticating (exactly while a connect
\* is reading the auth reply) or Ready; it becomes Authenticating only from
\* Disconnected and Ready only from Authenticating; when run_command returns
\* an error the service holds no connection, when it returns success it holds
\* a Ready one.
C6_ConnectionStates ==
    /\ [](/\ rcon_conn \in {"Disconnected", "Authenticating", "Ready"}
          /\ rcon_conn = "Authenticating" <=> \E t \in Workers : th[t].pc = "auth")
    /\ [][/\ rcon_conn' = "Authenticating" => rcon_conn \in {"Disconnected", "Authenticating"}
          /\ rcon_conn' = "Ready" => rcon_conn \in {"Authenticating", "Ready"}
          /\ \A t \in Workers :
                /\ ReturnsErr(t) => rcon_conn' = "Disconnected"
                /\ ReturnsOk(t) => rcon_conn' = "Ready"]_vars

\* send_private_message has just got an error from run_command
C6_Witness ==
    \E t \in Workers :
        /\ th[t].pc = "ret"
        /\ th[t].op = "send_private_message"
        /\ th[t].res = "RconError"
        /\ rcon_conn = "Disconnected"
        /\ rcon_lock = "none"

\* C7: at most one thread is inside an exchange (connect, send, read, retry),
\* it is the holder of the runtime mutex, and while an exchange is in progress
\* neither update_endpoint nor close nor another thread touches the connection
\* or the endpoint.
C7_MutualExclusion ==
    /\ [](/\ Cardinality({t \in Workers : InRunCommand(t)}) <= 1
          /\ \A t \in Workers : InRunCommand(t) => rcon_lock = t)
    /\ [][\A t \in Workers :
            InRunCommand(t) =>
               /\ rt_endpoint' = rt_endpoint
               /\ rcon_conn' # rcon_conn => th'[t] # th[t]
               /\ \A u \in Workers \ {t} : ~InRunCommand(u)']_vars

\* one thread is waiting for its response while the other waits for the mutex
\* and update_endpoint has not finished
C7_Witness ==
    \E t \in Workers, u \in Workers :
        /\ t # u
        /\ th[t].pc = "sent"
        /\ th[u].pc = "call"
        /\ ui_pc = "upd_ui"

\* C8: after connect failed because the auth reply had id -1, run_command
\* makes no further connection attempt: its next step is to return the error.
C8_AuthFailureNotRetried ==
    [][\A t \in Workers :
          (th[t].pc = "loop" /\ th[t].last_err = "auth" /\ th'[t] # th[t]) =>
              /\ th'[t].pc \in {"call", "ret"}
              /\ rcon_conn' = rcon_conn]_vars

\* C9: for a command above the ceiling no command packet is written, no
\* second connection attempt is made, and a connection held at entry stays
\* held: it is not dropped and no connection attempt is made at all.
C9_OverLengthRejected ==
    \A t \in Workers :
        (InRunCommand(t) /\ th[t].command > MaxCommandBytes) =>
            /\ th[t].sends = 0
            /\ th[t].connects <= 1
            /\ th[t].held => rcon_conn = "Ready" /\ th[t].connects = 0

\* arguments outside the patterns, listed one by one
BadPlayerNames == {InvalidPlayer, LongPlayer, <<>>}
BadBlockIds == {<<"d", "i", "r", "t">>, MinecraftPrefix,
                MinecraftPrefix \o <<"D", "i", "r", "t">>}
BadArg(op, arg) ==
    \/ op \in PlayerOps /\ arg \in BadPlayerNames
    \/ op \in BlockOps /\ arg \in BadBlockIds

AtMost(k, n, limb) == n.hi >= 2147483647 \div limb + 1 \/ k <= n.hi * limb + n.lo

\* the segments pushed so far follow one another from y_min
Chained(segments, y_min) ==
    \A i \in 1..Len(segments) :
        /\ segments[i][1] = (IF i = 1 THEN y_min ELSE segments[i - 1][2] + 1)
        /\ segments[i][1] <= segments[i][2]

\* C11: build_vertical_segments builds, for every budget and every range
\* y_min <= y_max, segments that start at y_min, follow one another without
\* gap or overlap, are each at most max(1, budget / 256) high, and when it
\* returns the list is not empty and ends at y_max; budget 32768 over
\* (-64, 319) returns the three segments of height 128.
C11_Segmentation ==
    fn_call.fn = "build_vertical_segments" =>
        /\ Chained(fn_ret, fn_call.y_min)
        /\ \A i \in 1..Len(fn_ret) :
               AtMost(fn_ret[i][2] - fn_ret[i][1] + 1,
                      max_one(div_area(fn_call.fill_max_blocks)), 65536)
        /\ fn_call.done =>
               /\ fn_ret # <<>>
               /\ fn_ret[Len(fn_ret)][2] = fn_call.y_max
               /\ (fn_call.fill_max_blocks = Usize(0, 32768) /\ fn_call.y_min = 0 - 64
                      /\ fn_call.y_max = 319) =>
                     fn_ret = <<<<0 - 64, 63>>, <<64, 191>>, <<192, 319>>>>

\* C12: every segment built under a budget the loader accepts holds at most
\* that many blocks: 16 x 16 x (end - start + 1) <= budget.
C12_SegmentBudget ==
    fn_call.fn = "build_vertical_segments" =>
        \A i \in 1..Len(fn_ret) :
            AtMost(16 * 16 * (fn_ret[i][2] - fn_ret[i][1] + 1),
                   fn_call.fill_max_blocks, 16777216)

\* origin is a multiple of 16 and origin <= floor(v) <= origin + 15, said
\* on tenths: 10 * origin <= tenths < 10 * (origin + 16)
OriginOf(tenths, origin) ==
    /\ origin % 16 = 0
    /\ 10 * origin <= tenths
    /\ tenths < 10 * (origin + 16)

\* C13: for a player at (x, z), positive or negative, each origin is the
\* multiple of 16 with origin <= floor(v) <= origin + 15 and the box is
\* [origin, origin + 15] on each axis; x = 10.2 gives [0, 15], z = -5.9
\* gives [-16, -1].
C13_ChunkOrigin ==
    fn_call.fn = "chunk_box" =>
        /\ OriginOf(fn_call.x, fn_ret.x1)
        /\ OriginOf(fn_call.z, fn_ret.z1)
        /\ fn_ret.x2 = fn_ret.x1 + 15
        /\ fn_ret.z2 = fn_ret.z1 + 15
        /\ fn_call.x = 102 => fn_ret.x1 = 0 /\ fn_ret.x2 = 15
        /\ fn_call.z = 0 - 59 => fn_ret.z1 = 0 - 16 /\ fn_ret.z2 = 0 - 1

\* the player of the example: x = 10.2, z = -5.9
C13_Witness ==
    /\ fn_call.fn = "chunk_box"
    /\ fn_call.x = 102
    /\ fn_call.z = 0 - 59
    /\ fn_ret.x1 = 0
    /\ fn_ret.z1 = 0 - 16

\* C14: the recognizer worker never waits in a send to the recognized-phrase
\* channel: a send on a full channel returns at once.
C14_ProducerNeverBlocks == rec_pc \notin {"blocked", "final_blocked"}

\* C15: when run has returned, the event worker thread and the presence
\* watcher thread have both terminated.
C15_WorkersJoined ==
    main_pc = "returned" => rt_ew = "done" /\ rt_pw = "done"

\* C18: the packet read_packet decodes from the bytes send_packet wrote has
\* the id send_packet returned, the kind and the body it was given; the length
\* prefix is the byte length of the body plus 10 and lies in 10..1 MiB.
C18_FramingRoundTrip ==
    /\ (fn_call.fn = "send_packet" /\ stream # <<>>) =>
           /\ from_le_bytes(SubSeq(stream, 1, 4)) = ByteLen(fn_call.body) + 10
           /\ from_le_bytes(SubSeq(stream, 1, 4)) \in 10..1048576
           /\ Len(stream) = 4 + from_le_bytes(SubSeq(stream, 1, 4))
    /\ (fn_call.fn = "send_packet" /\ stream = <<>>) =>
           /\ packet.ok
           /\ packet.id = fn_call.id
           /\ packet.kind = fn_call.kind
           /\ packet.body = as_bytes(fn_call.body)

\* a command of the greatest length cmd accepts, with a two-byte character
\* in it, was sent and read back
C18_Witness ==
    /\ fn_call.fn = "send_packet"
    /\ stream = <<>>
    /\ packet.ok
    /\ ByteLen(fn_call.body) = MaxCommandBytes
    /\ Len(fn_call.body) < MaxCommandBytes

\* C19: each packet sent over a connection carries an id greater than the id
\* of the packet sent before it.
C19_RequestIdsIncrease ==
    \A i \in 1..Len(sent_ids), j \in 1..Len(sent_ids) :
        i < j => sent_ids[i] < sent_ids[j]

\* the alias occurs in the text as a run of whole words
OccursAsWords(alias, normalized_text) ==
    LET words == split_whitespace(normalized_text)
        wanted == split_whitespace(alias)
    IN \E i \in 1..Len(words) :
          /\ i + Len(wanted) - 1 <= Len(words)
          /\ SubSeq(words, i, i + Len(wanted) - 1) = wanted

\* the identifiers of the aliases that occur in the text as whole words
IdsOfWholeWords(normalized_text) ==
    UNION {{alias_to_blocks(sorted_aliases[i])[k] :
               k \in 1..Len(alias_to_blocks(sorted_aliases[i]))} :
           i \in {j \in 1..Len(sorted_aliases) :
                     OccursAsWords(sorted_aliases[j], normalized_text)}}

\* C20: what match_blocks returns holds the identifiers of every alias that
\* occurs in the normalized text as a run of whole words, whatever the
\* threshold; with threshold 0 it holds nothing else, so an alias found only
\* inside a longer word adds nothing.
C20_ExactMatch ==
    fn_call.fn = "match_blocks" =>
        LET found == {fn_ret[k] : k \in 1..Len(fn_ret)}
            whole == IdsOfWholeWords(normalize_text(fn_call.text))
        IN /\ whole \subseteq found
           /\ fn_call.threshold = 0 => found = whole

\* with threshold 0, the text "Dye ye": "dye" and "ye" are whole words, "d ye"
\* is not, and the "ye" inside "dye" adds nothing
C20_Witness ==
    /\ fn_call.fn = "match_blocks"
    /\ fn_call.threshold = 0
    /\ fn_call.text = <<"D", "ye", " ", "ye">>
    /\ fn_ret = <<BlockStone, BlockDirt>>

\* the presence watcher handles the result of a poll
PollHandled == rt_pw = "poll" /\ rt_pw' # "poll"

\* the presence watcher decides to send the welcome message
WelcomeStarts == rt_pw # "welcome" /\ rt_pw' = "welcome"

\* the presence watcher calls send_private_message
WelcomeSent ==
    /\ th["presence_watcher"].op # "send_private_message"
    /\ th["presence_watcher"].op' = "send_private_message"

AmbiguousFailure ==
    \/ th["presence_watcher"].res \notin {"Ok", "PlayerLookupError"}
    \/ /\ th["presence_watcher"].res = "PlayerLookupError"
       /\ th["presence_watcher"].msg = "rcon"

\* C17: a poll that fails for a reason other than the player being absent
\* shows the player as offline, logs no departure and leaves was_online as it
\* was, so that the next successful poll sends no new welcome.
C17_AmbiguousErrorIsNoLogout ==
    [][ (PollHandled /\ AmbiguousFailure) =>
            /\ ui_player_online' = FALSE
            /\ pw_hist.logs' = <<>>
            /\ pw_was_online' = pw_was_online ]_vars
\* C21: a poll of the presence watcher that failed has left at least one line
\* in the log, written by the watcher or by the operation it called.
C21_FailedPollLogged ==
    [][ (PollHandled /\ th["presence_watcher"].res # "Ok") =>
            \/ pw_hist.logs' # <<>>
            \/ th["presence_watcher"].debug ]_vars
C23_WindowReset ==
    [][ \A event \in GateEvents :
          (EwRecv(event) /\ ew_candidates' # <<>>) =>
             LET key == <<event.speaker_id, ew_candidates'[1]>>
             IN /\ repeat_gate'[key].last_seen = now
                /\ key \in DOMAIN repeat_gate =>
                      IF now - repeat_gate[key].last_seen > repeat_window
                      THEN /\ repeat_gate'[key].count = 1
                           /\ ew_passed' = <<key[2]>>
                      ELSE repeat_gate'[key].count = repeat_gate[key].count + 1
      ]_vars

\* a pair whose count stood above 1, the last occurrence suppressed, came
\* again after more than the window and passed with count 1
C23_Witness ==
    \E key \in DOMAIN repeat_gate :
       /\ gate_run[key].left = 2
       /\ repeat_gate[key].count = 1
       /\ repeat_gate[key].last_seen = now
       /\ ew_passed = <<key[2]>>
\* C24: every candidate word of a partial event has at least 2 characters.
C24_CandidateWordLength ==
    partial_run.active =>
        \A i \in 1..Len(ew_candidates) : Len(ew_candidates[i]) >= 2
\* C25: the event worker looks for a chunk context only for an event with a
\* matched identifier.  It takes the cached context, calling nothing, exactly
\* when there is one, for the configured player, at most chunk_cache_ttl old;
\* otherwise it calls get_player_chunk_context once, and on success the cache
\* holds the result with the time of this lookup.
C25_ChunkCache ==
    /\ [](ew_pc = "lookup" => ew_block_ids # <<>> /\ ew_lookups = 0)
    /\ [](ew_lookups <= 1)
    /\ [][ (ew_pc = "lookup" /\ ew_pc' # "lookup") =>
             IF /\ cached_chunk.some
                /\ cached_chunk.context.player_name = player_name
                /\ now - cached_chunk.fetched_at <= 7
             THEN /\ ew_lookups' = 0
                  /\ ew_pc' = "trigger"
                  /\ ew_ctx' = [some |-> TRUE, context |-> cached_chunk.context]
                  /\ cached_chunk' = cached_chunk
             ELSE /\ ew_lookups' = 1
                  /\ ew_pc' = "trigger" =>
                        /\ ew_ctx'.some
                        /\ cached_chunk' = [some |-> TRUE, fetched_at |-> now,
                                            context |-> ew_ctx'.context]
        ]_vars

\* a context fetched exactly 700 ms ago has been reused
C25_Witness ==
    /\ ew_pc = "trigger"
    /\ ew_lookups = 0
    /\ cached_chunk.some
    /\ now - cached_chunk.fetched_at = chunk_cache_ttl

\* C26: delete_block_in_chunk_context runs the fill commands of the segments
\* one at a time in the order of context.segments: the command in hand is the
\* one of segment commands_sent + 1 and the later ones are still to come; it
\* returns Ok only with commands_sent equal to the number of segments, and an
\* error only with a segment left whose command, like every later one, was
\* never issued; commands_sent grows by one exactly when a run_command
\* returned Ok and never otherwise changes during the operation.
C26_DeleteInChunkSequence ==
    /\ [](\A t \in Workers :
            th[t].op = "delete_block_in_chunk_context" /\ ArgValid(th[t].op, th[t].arg)
            => \E context \in Contexts :
                 LET commands == FillCommands(context, th[t].arg)
                     n == Len(commands)
                     k == th[t].commands_sent
                 IN IF th[t].pc = "ret"
                    THEN /\ th[t].pending = <<>>
                         /\ th[t].res = "Ok" <=> k = n
                         /\ th[t].res = "RconError" <=> k < n
                    ELSE /\ k < n
                         /\ th[t].command = commands[k + 1]
                         /\ th[t].pending = SubSeq(commands, k + 2, n))
    /\ [][\A t \in Workers :
            th[t].op = "delete_block_in_chunk_context" /\ th[t].pc # "ret"
            /\ th'[t].op = th[t].op
            => /\ th'[t].commands_sent \in
                      {th[t].commands_sent, th[t].commands_sent + 1}
               /\ th'[t].commands_sent = th[t].commands_sent + 1
                  <=> th[t].pc = "sent" /\ th'[t].pc \in {"call", "ret"}
               /\ th'[t].pc = "ret" /\ th[t].pc # "idle"
                  => th'[t].res = IF th[t].pc = "sent" THEN "Ok" ELSE "RconError"]_vars

\* all the segments of a chunk were cleared: Ok with commands_sent = 3
C26_Witness ==
    /\ th["event_worker"].op = "delete_block_in_chunk_context"
    /\ th["event_worker"].pc = "ret"
    /\ th["event_worker"].res = "Ok"
    /\ th["event_worker"].commands_sent = 3
    /\ Len(ContextIn(OverworldDimension).segments) = 3

\* the command of the second segment failed after the first one went through
C26_StoppedWitness ==
    /\ th["event_worker"].op = "delete_block_in_chunk_context"
    /\ th["event_worker"].pc = "ret"
    /\ th["event_worker"].res = "RconError"
    /\ th["event_worker"].commands_sent = 1
    /\ ui_rcon_ok = FALSE

\* the stages of get_player_pos
PosStages == {"pos", "idx0", "idx1", "idx2", "nbt"}

\* C27: get_player_pos starts with the position query; an indexed query
\* Pos[i] follows only the position query (i = 0) or the indexed query before
\* it, the full entity query follows only an indexed query, and a
\* PlayerLookupError is returned by the chain only after the full entity
\* query, that is, after all three stages have failed.
C27_FallbackChain ==
    [][\A t \in Workers :
          th[t].op \in {"get_player_pos", "get_player_chunk_context"}
          /\ th'[t].op = th[t].op /\ th'[t].stage # th[t].stage
          => /\ th'[t].stage = "idx0" => th[t].stage = "pos"
             /\ th'[t].stage = "idx1" => th[t].stage = "idx0"
             /\ th'[t].stage = "idx2" => th[t].stage = "idx1"
             /\ th'[t].stage = "nbt" => th[t].stage \in {"idx0", "idx1", "idx2"}
             /\ th[t].stage \in PosStages /\ th'[t].res = "PlayerLookupError"
                => th[t].stage = "nbt"]_vars

\* read_packet has returned to the call under way during this step
PacketTaken ==
    /\ fn_call.fn \in {"connect", "cmd"}
    /\ fn_call.pc = "read"
    /\ stream # <<>>
    /\ Len(fn_call'.got) = Len(fn_call.got) + 1

\* C28: while connect reads, the connection is not Ready; a packet of kind 2
\* with id -1 fails connect with the authentication error, one of kind 2 with
\* another id than the auth request's, or a packet of another kind, leaves
\* connect reading, one of kind 2 with the auth request's id makes the
\* connection Ready, and a read that fails makes connect fail.
C28_AuthHandshake ==
    /\ [](fn_call.fn = "connect" /\ fn_call.pc = "read"
            => rcon_conn = "Authenticating" /\ sent_ids = <<fn_call.auth_id>>)
    /\ [][fn_call.fn = "connect" /\ PacketTaken
          => LET pkt == PacketRead(stream)
             IN IF ~pkt.ok
                THEN /\ fn_call'.pc = "ret" /\ fn_ret'[1] = "Err"
                     /\ rcon_conn' # "Ready"
                ELSE IF pkt.kind = 2 /\ pkt.id = -1
                THEN /\ fn_call'.pc = "ret"
                     /\ fn_ret' = <<"Err", "RCON authentication failed">>
                     /\ rcon_conn' # "Ready"
                ELSE IF pkt.kind = 2 /\ pkt.id = fn_call.auth_id
                THEN /\ fn_call'.pc = "ret" /\ fn_ret'[1] = "Ok"
                     /\ rcon_conn' = "Ready"
                ELSE /\ fn_call'.pc = "read" /\ fn_ret' = fn_ret
                     /\ rcon_conn' = "Authenticating"]_vars
    /\ [][fn_call.fn = "connect" /\ fn_call.pc = "read" /\ stream = <<>>
          /\ fn_call'.pc # "read"
          => fn_ret'[1] = "Err" /\ rcon_conn' # "Ready"]_vars

\* connect became Ready on the third packet: the first was of kind 2 with a
\* foreign id, the second of another kind
C28_Witness ==
    /\ fn_call.fn = "connect" /\ fn_call.pc = "ret"
    /\ rcon_conn = "Ready"
    /\ Len(fn_call.got) = 3
    /\ fn_call.got[1].kind = 2 /\ fn_call.got[1].id = 7
    /\ fn_call.got[2].kind = 0
    /\ fn_call.got[3].kind = 2 /\ fn_call.got[3].id = fn_call.auth_id

\* the bodies of the packets of kind 0 or 2 among pkts, in order, as one
RECURSIVE Payload(_)
Payload(pkts) ==
    IF pkts = <<>> THEN <<>>
    ELSE (IF Head(pkts).kind \in {0, 2} THEN Head(pkts).body ELSE <<>>)
           \o Payload(Tail(pkts))

\* bytes without the white space at its two ends
RECURSIVE Stripped(_)
Stripped(bytes) ==
    IF bytes = <<>> THEN <<>>
    ELSE IF IsWhitespace(Head(bytes)) THEN Stripped(Tail(bytes))
    ELSE IF IsWhitespace(bytes[Len(bytes)])
    THEN Stripped(SubSeq(bytes, 1, Len(bytes) - 1))
    ELSE bytes

\* Ok of cmd came after at least one packet, all of them read whole, with no
\* byte left buffered
ReturnedAfterLastPacket ==
    fn_call.fn = "cmd" /\ fn_call.pc = "ret" /\ fn_ret[1] = "Ok"
    => /\ Len(fn_call.got) >= 1
       /\ \A i \in 1..Len(fn_call.got) : fn_call.got[i].ok
       /\ stream = <<>>

\* cmd sends one command packet; a read that fails makes it fail; after a
\* packet it returns Ok when no byte is buffered and reads on when one is
ReadsWhilePending ==
    /\ fn_call = NoCall /\ fn_call'.fn = "cmd" /\ fn_call'.pc = "read"
       => sent_ids' = Append(sent_ids, 0)
    /\ fn_call.fn = "cmd" /\ PacketTaken
       => IF PacketRead(stream).ok
          THEN fn_call'.pc = "peek" /\ fn_ret' = fn_ret
          ELSE fn_call'.pc = "ret" /\ fn_ret'[1] = "Err"
    /\ fn_call.fn = "cmd" /\ fn_call.pc = "peek" /\ fn_call'.pc # "peek"
       => \/ fn_call'.pc = "ret" /\ fn_ret' = <<"Err", "RCON peek error">>
          \/ IF stream = <<>>
             THEN fn_call'.pc = "ret" /\ fn_ret'[1] = "Ok"
             ELSE fn_call'.pc = "read" /\ fn_call'.result = fn_call.result

\* C29 as stated: cmd returns the concatenation, in arrival order, of the
\* bodies of all packets of kind 0 or 2 it read; it reads at least one
\* packet, stops at the first point where no byte is buffered after a packet,
\* and fails when a read fails.
C29_Original ==
    /\ [](ReturnedAfterLastPacket
          /\ (fn_call.fn = "cmd" /\ fn_call.pc = "ret" /\ fn_ret[1] = "Ok"
              => fn_ret[2] = Payload(fn_call.got)))
    /\ [][ReadsWhilePending]_vars

\* C29: cmd returns the concatenation, in arrival order, of the bodies of all
\* packets of kind 0 or 2 it read, without the white space at the two ends of
\* the concatenation; it reads at least one packet, stops at the first point
\* where no byte is buffered after a packet, and fails when a read fails.
C29_ResponseReassembly ==
    /\ [](ReturnedAfterLastPacket
          /\ (fn_call.fn = "cmd" /\ fn_call.pc = "ret" /\ fn_ret[1] = "Ok"
              => fn_ret[2] = Stripped(Payload(fn_call.got))))
    /\ [][ReadsWhilePending]_vars

\* a response in three packets, " " of kind 2, "ya" of kind 0 and "a" of kind
\* 3: cmd returned "ya"
C29_Witness ==
    /\ fn_call.fn = "cmd" /\ fn_call.pc = "ret"
    /\ Len(fn_call.got) = 3
    /\ \A i \in 1..3 : fn_call.got[i].ok
    /\ fn_call.got[1].kind = 2 /\ fn_call.got[1].body = as_bytes(<<" ">>)
    /\ fn_call.got[2].kind = 0 /\ fn_call.got[2].body = as_bytes(<<"ya">>)
    /\ fn_call.got[3].kind = 3
    /\ fn_ret = <<"Ok", as_bytes(<<"ya">>)>>

\* the step of update_endpoint that holds the guard leaves no connection; a
\* connection the service holds was opened to the endpoint it now has; a
\* command packet is written only to such a connection
SentToCurrentEndpoint ==
    /\ ui_pc = "idle" /\ ui_pc' = "upd_ui"
       => rcon_conn' = "Disconnected" /\ client_endpoint' = 0
    /\ rcon_conn' # "Disconnected" => client_endpoint' = rt_endpoint'
    /\ \A t \in Workers :
          th'[t].sends = th[t].sends + 1
          => rcon_conn = "Ready" /\ client_endpoint = rt_endpoint

\* C30 as stated: when update_endpoint returns the service holds no
\* connection (guard.client is None), and no command is sent over a connection opened to another
\* endpoint than the one the service has.
C30_Original ==
    [][/\ SentToCurrentEndpoint
       /\ ui_pc = "upd_ui" /\ ui_pc' = "idle" => rcon_conn' # "Ready"]_vars

\* C30: update_endpoint drops the connection in the step that sets the new
\* host and port; a connection the service holds afterwards, one that a
\* worker opened before update_endpoint returned included, was opened to the
\* new endpoint, and no command is sent over a connection opened to another
\* endpoint than the one the service has.
C30_EndpointChange == [][SentToCurrentEndpoint]_vars

\* update_endpoint has set endpoint 2 and not yet returned; the event worker
\* found no client, connected to endpoint 2 and has written its command
C30_Witness ==
    /\ ui_pc = "upd_ui"
    /\ rt_endpoint = 2
    /\ rcon_conn = "Ready" /\ client_endpoint = 2
    /\ th["event_worker"].pc = "sent"
    /\ ~th["event_worker"].held
    /\ th["event_worker"].connects = 1

\* C31: once the shutdown flag is set, the event worker takes no further
\* event from the recognized-phrase channel: it finishes at most the event it
\* is handling.
C31_ShutdownBetweenReceives ==
    [][shutdown /\ rt_ew = "recv" => rt_ew' # "busy"]_vars

\* C32: from the moment the shutdown flag is set and the recognizer has
\* stopped, the event worker and the presence watcher both eventually
\* terminate.
C32_WorkersTerminate ==
    (shutdown /\ rec_pc = "done") ~> (rt_ew = "done" /\ rt_pw = "done")

\* the flag is set and the recognizer is gone while the event worker handles
\* an event, another one is queued and the watcher is in its poll
C32_Witness ==
    /\ shutdown /\ rec_pc = "done"
    /\ rt_ew = "busy" /\ text_chan > 0
    /\ rt_pw = "poll"

\* the log lines of a failed lookup or deletion
FailureLogs == {"rcon-error", "rcon-player-error"}

\* C33: the event worker is always in its loop; a lookup that fails appends
\* one failure line to the log and takes the worker back to the receive, and
\* a deletion that fails appends one failure line and takes it on to the next
\* identifier, or back to the receive after the last one.
C33_FailuresDoNotStopPipeline ==
    /\ [](ew_pc \in {"recv", "lookup", "trigger"})
    /\ [][/\ ew_pc = "lookup" /\ ew_pc' \notin {"lookup", "trigger"}
             => /\ ew_pc' = "recv"
                /\ ew_lookups' = ew_lookups + 1
                /\ Len(ew_logs') = Len(ew_logs) + 1
                /\ ew_logs'[Len(ew_logs')] \in FailureLogs
          /\ ew_pc = "trigger" /\ Len(ew_checks') > Len(ew_checks)
             /\ ew_checks'[Len(ew_checks')].called
             /\ ew_logs'[Len(ew_logs')] # "trigger"
             => /\ Len(ew_logs') = Len(ew_logs) + 1
                /\ ew_logs'[Len(ew_logs')] \in FailureLogs
                /\ ew_pc' = IF Tail(ew_block_ids) = <<>> THEN "recv" ELSE "trigger"]_vars

\* the deletion of the first identifier of an event failed and the one of the
\* second went through; the worker is back at the receive
C33_Witness ==
    /\ ew_pc = "recv"
    /\ ew_logs = <<"rcon-error", "trigger">>
    /\ Len(ew_checks) = 2

\* C34: from the return of rcon.close() in the shutdown sequence until run
\* returns, the service holds no connection and none is being opened.
C34_ConnectionStaysClosed == main_pc = "join" => rcon_conn = "Disconnected"

\* C35: every identifier that load puts under an alias, from the name table,
\* from extra_aliases or from shared_aliases, is accepted by
\* validate_block_id.
C35_MatchedIdentifiersDeletable ==
    fn_call.fn = "load" => \A id \in fn_ret : validate_block_id(id)

\* the step is an iteration of the loop over block_ids
TriggerStep == ew_pc = "trigger" /\ Len(ew_checks') = Len(ew_checks) + 1

\* C36: an iteration that calls deleteInChunk leaves the ledger entry of its
\* (player, identifier) at the current time, whether the call succeeds or
\* fails; no step removes or moves back a ledger entry; an iteration whose
\* pair has an entry younger than the cooldown makes no call.
C36_CooldownConsumedByAttempt ==
    [][/\ DOMAIN last_trigger \subseteq DOMAIN last_trigger'
       /\ \A k \in DOMAIN last_trigger : last_trigger'[k] >= last_trigger[k]
       /\ TriggerStep =>
             LET key == <<player_name, Head(ew_block_ids)>>
                 check == ew_checks'[Len(ew_checks')]
             IN /\ check.called
                   => key \in DOMAIN last_trigger' /\ last_trigger'[key] = now
                /\ key \in DOMAIN last_trigger
                   /\ now - last_trigger[key] < cooldown_seconds
                   => ~check.called /\ last_trigger' = last_trigger]_vars

\* a deletion has just failed and the ledger holds its pair at this time
C36_Witness ==
    /\ ew_checks # <<>>
    /\ ew_checks[Len(ew_checks)].called
    /\ ew_checks[Len(ew_checks)].at = now
    /\ ew_logs # <<>> /\ ew_logs[Len(ew_logs)] = "rcon-error"
    /\ <<player_name, ew_checks[Len(ew_checks)].block_id>> \in DOMAIN last_trigger
    /\ last_trigger[<<player_name, ew_checks[Len(ew_checks)].block_id>>] = now
    /\ now > 0

\* C37: a lookup that fails is followed by no deleteInChunk call of its
\* event: the worker is back at the receive with no call made, the cooldown
\* ledger as it was and no cached context.
C37_LookupFailureLeavesLedger ==
    [][ew_pc = "lookup" /\ ew_lookups' = ew_lookups + 1 /\ ~ew_ctx'.some
       => /\ ew_pc' = "recv"
          /\ ew_checks = <<>> /\ ew_checks' = <<>>
          /\ last_trigger' = last_trigger
          /\ trigger_hist' = trigger_hist
          /\ ~cached_chunk'.some]_vars

\* the lookup of an event failed when the ledger held an identifier from an
\* earlier event: nothing is cached and the ledger still holds that entry
C37_Witness ==
    /\ ew_pc = "recv"
    /\ ew_lookups = 1
    /\ ew_logs = <<"rcon-player-error">>
    /\ ew_checks = <<>>
    /\ ~cached_chunk.some
    /\ DOMAIN last_trigger # {}

\* C38: in every reachable state the rcon health flag of the status
\* aggregate is true only if the service holds a Ready connection.
C38_RconHealthFlag == ui_rcon_ok => rcon_conn = "Ready"

\* a key carrying a character is handled
CharKeyStep ==
    \E c \in KeyChars :
       \/ KeyQuit(c)
       \/ KeyChar(c, MaxDraftChars, MaxPortChars)
       \/ \E io_ok \in BOOLEAN : KeySave(c, io_ok, MaxUiLogs)

\* C39: while the settings dialog is open and a text field is being edited,
\* a character key changes at most the draft of that field, by appending the
\* character; it neither sets the shutdown flag nor saves.
C39_EditingIsolated ==
    [][controls.settings_open /\ controls.settings_editing /\ CharKeyStep
       => /\ shutdown' = shutdown
          /\ main_pc' = main_pc
          /\ controls' = controls
          /\ ui_settings' = ui_settings
          /\ ui_logs' = ui_logs
          /\ rt_endpoint' = rt_endpoint
          /\ \/ settings_draft' = settings_draft
             \/ \E c \in KeyChars :
                   settings_draft' =
                      [settings_draft EXCEPT
                         ![DraftField(controls.settings_field)] = Append(@, c)]]_vars

\* a port draft that is empty or stands for a number above 65535
InvalidPortDraft(text) ==
    \/ text = <<>>
    \/ /\ \A i \in 1..Len(text) : text[i] \in AsciiDigit
       /\ DigitsValue(text) > 65535

\* C40: a save of the settings dialog whose port draft is not a 16-bit port
\* writes a [settings-error] log entry, leaves the dialog open and leaves run
\* in its loop.
C40_InvalidSettingsKeepRunLoop ==
    [][/\ controls.settings_open
       /\ ~controls.settings_editing
       /\ InvalidPortDraft(settings_draft.port)
       /\ \E c \in KeyChars, io_ok \in BOOLEAN : KeySave(c, io_ok, MaxUiLogs)
       => /\ main_pc' = "running"
          /\ controls'.settings_open
          /\ ui_logs' # <<>>
          /\ ui_logs'[Len(ui_logs')].text.tag = "[settings-error]"
          /\ ui_logs' # ui_logs]_vars
====
